---------------------------- MODULE Spec2Model ----------------------------
(***************************************************************************)
(* A model of the NBA statistics scraper (src/scrape_nba_stats.py).        *)
(*                                                                         *)
(* Text is modelled by TLA+ strings, taken apart with Len and SubSeq and   *)
(* put together with \o, so that the string functions of the program       *)
(* (startswith, replace, split, strip, join, the regular expressions) are  *)
(* computed character by character as Python computes them.                *)
(*                                                                         *)
(* A DataFrame is a record [cols, rows]: cols is the sequence of column    *)
(* labels, rows the sequence of rows, each row the sequence of its cells   *)
(* in column order.  A cell is a string, or NaN for a missing value; a     *)
(* number is held by its decimal text, as the CSV files hold it.           *)
(***************************************************************************)
EXTENDS Integers, Sequences, FiniteSets, TLC

VARIABLES
    fn,          \* the function a harness specification exercises
    args,        \* the arguments the harness passes to it
    rets,        \* the values it has returned so far, in call order
    pc,          \* position of main(): "main", "scrape_year", "scrape_stat_table",
                 \* "save_to_csv", "done", "exit_1" (line 854), "interrupted"
                 \* (line 866); "idle" under a harness
    argv_years,  \* the years given on the command line
    valid_years, \* main()'s valid_years
    yi,          \* index into valid_years of the season being scraped
    ci,          \* index into STAT_TYPES of the next category of that season
    site,        \* the upstream site's content for the season being scraped
    year_files,  \* data/<year>/<category>_<year>.csv: (category, year) -> file
    combined,    \* data/all_years/<category>_all_years.csv: category -> file
    failures,    \* number of faults met so far: fetch and storage failures,
                 \* and the interruption by the user
    last_df,     \* the table scrape_stat_table returned in the last step
    last_saved,  \* (category, year) -> the table of the last successful save
    prev_combined, \* the last call of save_to_csv: its arguments, the
                   \* cumulative and per-season files it found, what the
                   \* storage did, and what it returned
    attempted    \* the (year, category) pairs scrape_stat_table was called
                 \* for, in call order

harness == <<fn, args, rets>>
driver == <<pc, argv_years, valid_years, yi, ci, site, year_files, combined,
            failures, last_df, last_saved, prev_combined, attempted>>
vars == <<fn, args, rets, pc, argv_years, valid_years, yi, ci, site,
          year_files, combined, failures, last_df, last_saved, prev_combined,
          attempted>>

(***************************************************************************)
(* Bounds of the model.                                                    *)
(***************************************************************************)
MaxLabelLen == 3
MaxTradedRows == 4
MaxAwardRows == 2
MaxNormCols == 2
MaxPageRows == 2
MaxYears == 2
MaxFailures == 1
MaxFlatCols == 2

(***************************************************************************)
(* Values and text.                                                        *)
(***************************************************************************)
\* pandas' missing value (NaN / None): a value that is no text of the model.
NaN == "<NaN>"

\* str(v): the text of a cell; a missing value reads 'nan'.
Str(v) == IF v = NaN THEN "nan" ELSE v

Digits == {"0", "1", "2", "3", "4", "5", "6", "7", "8", "9"}

LowerCase == {"a", "b", "c", "d", "e", "f", "g", "h", "i", "j", "k", "l", "m",
              "n", "o", "p", "q", "r", "s", "t", "u", "v", "w", "x", "y", "z"}

UpperCase == {"A", "B", "C", "D", "E", "F", "G", "H", "I", "J", "K", "L", "M",
              "N", "O", "P", "Q", "R", "S", "T", "U", "V", "W", "X", "Y", "Z"}

\* The character at position i (1-based); "" beyond the end of the text.
CharAt(s, i) == IF i \in 1..Len(s) THEN SubSeq(s, i, i) ELSE ""

\* The characters i..j of s that exist.
Slice(s, i, j) == SubSeq(s, i, IF j > Len(s) THEN Len(s) ELSE j)

\* s[i:] of Python, for a 0-based i.
From(s, i) == SubSeq(s, i + 1, Len(s))

\* A sequence given by a rule, with its elements computed once.
List(f) == f \o <<>>

\* F applied to the value of v, with v computed once: x = v; ... F(x).
Bind(v, F(_)) == CHOOSE out \in {F(x) : x \in {v}} : TRUE

StartsWith(s, p) == Len(p) <= Len(s) /\ SubSeq(s, 1, Len(p)) = p

\* sub in s
Contains(s, sub) ==
    \E i \in 1..(Len(s) - Len(sub) + 1) : SubSeq(s, i, i + Len(sub) - 1) = sub

\* s.replace(old, new): every non-overlapping occurrence, leftmost first.
RECURSIVE Replace(_, _, _)
Replace(s, old, new) ==
    IF Len(s) < Len(old) THEN s
    ELSE IF StartsWith(s, old) THEN new \o Replace(From(s, Len(old)), old, new)
    ELSE CharAt(s, 1) \o Replace(From(s, 1), old, new)

RECURSIVE LStripChar(_, _)
LStripChar(s, c) ==
    IF Len(s) > 0 /\ CharAt(s, 1) = c THEN LStripChar(From(s, 1), c) ELSE s

RECURSIVE RStripChar(_, _)
RStripChar(s, c) ==
    IF Len(s) > 0 /\ CharAt(s, Len(s)) = c
    THEN RStripChar(SubSeq(s, 1, Len(s) - 1), c) ELSE s

\* s.strip(): the model's only whitespace is the space.
Strip(s) == RStripChar(LStripChar(s, " "), " ")

\* s.split(sep) for a one-character sep: the pieces, in order.
RECURSIVE SplitFrom(_, _, _)
SplitFrom(s, sep, piece) ==
    IF Len(s) = 0 THEN <<piece>>
    ELSE IF CharAt(s, 1) = sep THEN <<piece>> \o SplitFrom(From(s, 1), sep, "")
    ELSE SplitFrom(From(s, 1), sep, piece \o CharAt(s, 1))

Split(s, sep) == SplitFrom(s, sep, "")

\* sep.join(parts)
RECURSIVE Join(_, _)
Join(parts, sep) ==
    IF Len(parts) = 0 THEN ""
    ELSE IF Len(parts) = 1 THEN parts[1]
    ELSE parts[1] \o sep \o Join(Tail(parts), sep)

\* re.sub(r'\(([^)]+)\)', r'_\1', s): each "(", a non-empty run of
\* characters other than ")", and ")" becomes "_" and the run.
RECURSIVE UnwrapParens(_)
UnwrapParens(s) ==
    IF Len(s) = 0 THEN s
    ELSE IF CharAt(s, 1) = "(" /\ \E j \in 3..Len(s) : CharAt(s, j) = ")"
              /\ CharAt(s, 2) # ")"
    THEN LET j == CHOOSE k \in 3..Len(s) :
                      /\ CharAt(s, k) = ")"
                      /\ \A m \in 3..(k - 1) : CharAt(s, m) # ")"
         IN "_" \o SubSeq(s, 2, j - 1) \o UnwrapParens(From(s, j))
    ELSE CharAt(s, 1) \o UnwrapParens(From(s, 1))

\* re.sub(r'_+', '_', s)
RECURSIVE CollapseUnderscores(_)
CollapseUnderscores(s) ==
    IF Len(s) = 0 THEN s
    ELSE IF CharAt(s, 1) = "_"
    THEN "_" \o CollapseUnderscores(LStripChar(s, "_"))
    ELSE CharAt(s, 1) \o CollapseUnderscores(From(s, 1))

(***************************************************************************)
(* clean_column_name                                                       *)
(***************************************************************************)
\* Lines 41-62: the prefix rules; the result is the rewritten label and
\* needs_leading_underscore.
PrefixRules(col) ==
    IF Contains(col, "-") /\ ~StartsWith(col, "%")
    THEN [needs |-> FALSE,
          col |-> IF StartsWith(col, "0-3") THEN "range_0_3" \o From(col, 3)
                  ELSE IF StartsWith(col, "3-10") THEN "range_3_10" \o From(col, 4)
                  ELSE IF StartsWith(col, "10-16") THEN "range_10_16" \o From(col, 5)
                  ELSE IF StartsWith(col, "16-3P") THEN "range_16_3P" \o From(col, 5)
                  ELSE col]
    ELSE IF StartsWith(col, "2P") THEN [needs |-> TRUE, col |-> "_2P" \o From(col, 2)]
    ELSE IF StartsWith(col, "3P") THEN [needs |-> TRUE, col |-> "_3P" \o From(col, 2)]
    ELSE IF Len(col) > 0 /\ CharAt(col, 1) \in Digits
    THEN [needs |-> TRUE, col |-> "_" \o col]
    ELSE [needs |-> FALSE, col |-> col]

\* Lines 64-69: the parenthetical qualifiers.
Parentheses(col) ==
    UnwrapParens(
      Replace(Replace(Replace(Replace(col,
          "(% of FGA)", "_pct_of_FGA"),
          "(FG%)", "_FG_pct"),
          "(% AST'd)", "_pct_ASTd"),
          "(Corner 3s)", "_Corner_3s"))

\* The substitutions with the period turned into an underscore.
SymbolsPeriodToUnderscore(col) ==
    Replace(Replace(Replace(Replace(Replace(Replace(Replace(Replace(col,
        "%", "_pct"),
        "+", ""),
        "/", "_per_"),
        "-", "_"),
        " ", "_"),
        ".", "_"),
        "#", "_ct"),
        "'", "")

\* Lines 71-81: the symbol substitutions, in the order of the code.
Symbols(col) ==
    Replace(Replace(Replace(Replace(Replace(Replace(Replace(Replace(col,
        "%", "_pct"),
        "+", ""),
        "/", "_per_"),
        "-", "_"),
        " ", "_"),
        ".", ""),
        "#", "_ct"),
        "'", "")

clean_column_name(col_name) ==
    IF col_name = NaN \/ col_name = "" THEN "Unnamed"
    ELSE LET p == PrefixRules(col_name)
             c == RStripChar(CollapseUnderscores(Symbols(Parentheses(p.col))), "_")
         IN IF p.needs THEN c ELSE LStripChar(c, "_")


(***************************************************************************)
(* DataFrames.                                                             *)
(***************************************************************************)
HasCol(df, name) == \E i \in 1..Len(df.cols) : df.cols[i] = name

\* The position of the (first) column of that name.
ColIndex(df, name) ==
    CHOOSE i \in 1..Len(df.cols) :
        df.cols[i] = name /\ \A j \in 1..(i - 1) : df.cols[j] # name

Cell(df, r, name) == df.rows[r][ColIndex(df, name)]

\* df.loc[r, name] = v
SetCell(df, r, name, v) ==
    [df EXCEPT !.rows[r][ColIndex(df, name)] = v]

\* The elements of seq at the positions in keep, in their order.
Pick(seq, keep) ==
    LET nth(i) == CHOOSE k \in keep : Cardinality({j \in keep : j < k}) = i - 1
    IN List([i \in 1..Cardinality(keep) |-> seq[nth(i)]])

\* df[mask] and df.drop(index=...): the rows at the positions in keep.
KeepRows(df, keep) == [df EXCEPT !.rows = Pick(df.rows, keep)]

RowSet(df) == 1..Len(df.rows)

(***************************************************************************)
(* handle_traded_players                                                   *)
(***************************************************************************)
\* The aggregate row is recognised by the label 'TOT'.
IsTOT(team) == Contains(Str(team), "TOT")

\* df['Team'].astype(str).str.contains('TM', na=False), for one cell.
IsTM(team) == Contains(Str(team), "TM")

\* Line 133: the team labels that are kept for the joined field.
KeepsLabel(t) == t # "" /\ t # "nan" /\ Strip(t) # "" /\ ~Contains(t, "TM")

\* Line 137: the team field of the aggregate row.
JoinTeamsNoSpace(teams) == Join(teams, ",")

JoinTeams(teams) == Join(teams, ", ")

\* Lines 120-140, one iteration: the aggregate row at idx, on the table as
\* the earlier iterations have left it; acc is [df, drop].
TradedStep(acc, idx) ==
    LET df == acc.df
        player_id == Cell(df, idx, "player_id")
        player_rows == {r \in RowSet(df) :
                           player_id # NaN /\ Cell(df, r, "player_id") = player_id}
        team_rows == {r \in player_rows : ~IsTM(Cell(df, r, "Team"))}
        labels == List([i \in 1..Len(df.rows) |-> Str(Cell(df, i, "Team"))])
        teams == Pick(labels, {r \in team_rows : KeepsLabel(labels[r])})
    IN IF team_rows # {} /\ Len(teams) > 0
       THEN [df |-> SetCell(df, idx, "Team", JoinTeams(teams)),
             drop |-> acc.drop \cup team_rows]
       ELSE acc

RECURSIVE TradedLoop(_, _)
TradedLoop(acc, tm_rows) ==
    IF Len(tm_rows) = 0 THEN acc
    ELSE TradedLoop(TradedStep(acc, Head(tm_rows)), Tail(tm_rows))

handle_traded_players(df) ==
    IF Len(df.rows) = 0 \/ ~HasCol(df, "player_id") \/ ~HasCol(df, "Team")
    THEN df
    ELSE LET tm == {r \in RowSet(df) : IsTM(Cell(df, r, "Team"))}
             tm_rows == Pick(List([i \in 1..Len(df.rows) |-> i]), tm)
             done == TradedLoop([df |-> df, drop |-> {}], tm_rows)
         IN IF tm = {} THEN df
            ELSE KeepRows(done.df, RowSet(df) \ done.drop)

(***************************************************************************)
(* split_awards_column                                                     *)
(***************************************************************************)
\* The characters of the model in code-point order, which is the order
\* sorted() compares strings by.
CodePoints ==
    " !#$%&'()*+,-./0123456789:;<=>?@ABCDEFGHIJKLMNOPQRSTUVWXYZ[]^_abcdefghijklmnopqrstuvwxyz"

RankOf ==
    [c \in {CharAt(CodePoints, i) : i \in 1..Len(CodePoints)} |->
        CHOOSE i \in 1..Len(CodePoints) : CharAt(CodePoints, i) = c]

Rank(c) == RankOf[c]

RECURSIVE StrLess(_, _)
StrLess(a, b) ==
    IF Len(b) = 0 THEN FALSE
    ELSE IF Len(a) = 0 THEN TRUE
    ELSE IF CharAt(a, 1) = CharAt(b, 1) THEN StrLess(From(a, 1), From(b, 1))
    ELSE Rank(CharAt(a, 1)) < Rank(CharAt(b, 1))

\* sorted(S) for a set of strings.
RECURSIVE Sorted(_)
Sorted(S) ==
    IF S = {} THEN <<>>
    ELSE LET least == CHOOSE x \in S : \A y \in S \ {x} : StrLess(x, y)
         IN <<least>> \o Sorted(S \ {least})

\* int(s), for the texts int() accepts in the model: digits, with blanks
\* around them.  IsInt says whether int(s) returns; ParseInt is its value.
IsInt(s) ==
    /\ Strip(s) # ""
    /\ \A i \in 1..Len(Strip(s)) : CharAt(Strip(s), i) \in Digits

RECURSIVE DigitsValue(_)
DigitsValue(s) ==
    IF Len(s) = 0 THEN 0
    ELSE 10 * DigitsValue(SubSeq(s, 1, Len(s) - 1))
         + (Rank(CharAt(s, Len(s))) - Rank("0"))

ParseInt(s) == DigitsValue(Strip(s))

\* The decimal text of a natural number, as to_csv writes it.
RECURSIVE IntText(_)
IntText(n) ==
    IF n < 10 THEN CharAt("0123456789", n + 1)
    ELSE IntText(n \div 10) \o CharAt("0123456789", (n % 10) + 1)

Column(df, name) == List([r \in 1..Len(df.rows) |-> Cell(df, r, name)])

\* df.rename(columns={old: new})
RenameCol(df, old, new) ==
    [df EXCEPT !.cols = List([i \in 1..Len(df.cols) |->
                            IF df.cols[i] = old THEN new ELSE df.cols[i]])]

\* df.drop(columns=names)
DropCols(df, names) ==
    LET keep == {i \in 1..Len(df.cols) : df.cols[i] \notin names}
    IN [cols |-> Pick(df.cols, keep),
        rows |-> List([r \in 1..Len(df.rows) |-> Pick(df.rows[r], keep)])]

\* df[name] = values: the column is replaced, or added as the last one.
SetColumn(df, name, values) ==
    IF HasCol(df, name)
    THEN [df EXCEPT !.rows = List([r \in 1..Len(df.rows) |->
                                 [df.rows[r] EXCEPT ![ColIndex(df, name)] = values[r]]])]
    ELSE [cols |-> Append(df.cols, name),
          rows |-> List([r \in 1..Len(df.rows) |-> Append(df.rows[r], values[r])])]

\* Lines 257-258: whether a placeholder column looks like awards data.
LooksLikeAwards(df, col) ==
    LET present == {r \in RowSet(df) : Cell(df, r, col) # NaN}
        sample == {r \in present : Cardinality({q \in present : q < r}) < 5}
    IN \E r \in sample : \/ Contains(Cell(df, r, col), ",")
                         \/ Contains(Cell(df, r, col), "-")

\* Lines 252-261: a mislabelled awards column is renamed.
WithAwardsColumn(df) ==
    IF HasCol(df, "Awards") THEN df
    ELSE IF HasCol(df, "Column_25") /\ LooksLikeAwards(df, "Column_25")
    THEN RenameCol(df, "Column_25", "Awards")
    ELSE IF HasCol(df, "Column_31") /\ LooksLikeAwards(df, "Column_31")
    THEN RenameCol(df, "Column_31", "Awards")
    ELSE df

\* Lines 270-273: the mentions of an awards text, stripped, in order.
Mentions(awards_str) ==
    LET pieces == Split(awards_str, ",")
    IN List([i \in 1..Len(pieces) |-> Strip(pieces[i])])

\* Lines 275-278: the base award name of a mention.
BaseAward(award) ==
    IF Contains(award, "-") THEN Split(award, "-")[1] ELSE award

\* Lines 267-279: all_awards.
AllAwards(df) ==
    UNION {{BaseAward(Mentions(Cell(df, r, "Awards"))[i]) :
               i \in {j \in 1..Len(Mentions(Cell(df, r, "Awards"))) :
                         Mentions(Cell(df, r, "Awards"))[j] # ""}} :
           r \in {q \in RowSet(df) : Cell(df, q, "Awards") # NaN}}

\* Line 292: whether a mention counts as a mention of the award.
MentionMatches(a, award) == StartsWith(a, award)

\* Lines 294-301: the value a matching mention gives.
MentionValue(a) ==
    IF Contains(a, "-") /\ IsInt(Split(a, "-")[2]) THEN ParseInt(Split(a, "-")[2])
    ELSE 1

\* Lines 284-305: the value of one row in the column of one award.
AwardValue(awards_str, award) ==
    IF awards_str = NaN THEN 0
    ELSE LET ms == Mentions(awards_str)
             hits == {i \in 1..Len(ms) : MentionMatches(ms[i], award)}
         IN IF hits = {} THEN 0
            ELSE MentionValue(ms[CHOOSE i \in hits : \A j \in hits : i <= j])

\* Lines 282-307: one column per award, in sorted order.
RECURSIVE AddAwardColumns(_, _)
AddAwardColumns(df, awards) ==
    IF Len(awards) = 0 THEN df
    ELSE AddAwardColumns(
             SetColumn(df, Head(awards),
                       List([r \in 1..Len(df.rows) |->
                           IntText(AwardValue(Cell(df, r, "Awards"), Head(awards)))])),
             Tail(awards))

split_awards_column(df0) ==
    LET df == WithAwardsColumn(df0)
    IN IF ~HasCol(df, "Awards") THEN df
       ELSE DropCols(AddAwardColumns(df, Sorted(AllAwards(df))),
                     {"Awards", "Column_25", "Column_31"})

(***************************************************************************)
(* normalize_columns                                                       *)
(***************************************************************************)
\* Lines 21-30: the keys of STAT_TYPES, in order.
STAT_TYPES ==
    <<"totals", "per_game", "per_36", "per_100_poss", "advanced",
      "play-by-play", "shooting", "adj_shooting">>

StatTypeSet == {STAT_TYPES[i] : i \in 1..Len(STAT_TYPES)}

bio_cols == {"Player", "Age", "Team", "Pos"}

award_cols == {"6MOY", "AS", "CPOY", "DEF1", "DEF2", "DPOY", "MIP", "MVP",
               "NBA1", "NBA2", "NBA3", "ROY", "Trp_Dbl"}

pct_cols == {"FG_pct", "_3P_pct", "_2P_pct", "eFG_pct", "FT_pct", "TS_pct"}

game_cols == {"G", "GS"}

stat_cols_to_rename ==
    {"FG", "FGA", "_3P", "_3PA", "_2P", "_2PA", "FT", "FTA",
     "ORB", "DRB", "TRB", "AST", "STL", "BLK", "TOV", "PF", "PTS"}

\* Lines 190-196: suffix_map.get(stat_type, '')
suffix_map_per36_as_pGame(stat_type) ==
    CASE stat_type = "totals" -> "_total"
      [] stat_type = "per_game" -> "_pGame"
      [] stat_type = "per_36" -> "_pGame"
      [] stat_type = "per_100_poss" -> "_p100"
      [] OTHER -> ""

suffix_map(stat_type) ==
    CASE stat_type = "totals" -> "_total"
      [] stat_type = "per_game" -> "_pGame"
      [] stat_type = "per_36" -> "_p36"
      [] stat_type = "per_100_poss" -> "_p100"
      [] OTHER -> ""

\* Lines 198-225: the columns the category does not keep.
ColsToDrop(stat_type) ==
    (IF stat_type # "totals" THEN bio_cols \cup award_cols \cup game_cols ELSE {})
    \cup (IF stat_type # "adj_shooting" THEN pct_cols ELSE {})
    \cup (IF stat_type \notin {"totals", "per_game"} THEN {"MP"} ELSE {})

\* Lines 227-242: rename_dict, applied to one label.
Renamed(col, stat_type) ==
    IF suffix_map(stat_type) # "" /\ col \in stat_cols_to_rename
    THEN col \o suffix_map(stat_type)
    ELSE IF suffix_map(stat_type) # "" /\ stat_type = "per_game" /\ col = "MP"
    THEN "MP_pGame"
    ELSE IF stat_type = "totals" /\ col = "MP" THEN "MP_total"
    ELSE col

normalize_columns(df, stat_type) ==
    LET kept == DropCols(df, ColsToDrop(stat_type))
    IN [kept EXCEPT !.cols = List([i \in 1..Len(kept.cols) |->
                                 Renamed(kept.cols[i], stat_type)])]

(***************************************************************************)
(* extract_player_id                                                       *)
(***************************************************************************)
\* re.search(r'/players/[a-z]/([a-z0-9]+)\.html', url): the positions j at
\* which an identifier that starts a match at i can end.
IdEnds(url, i) ==
    {j \in (i + 11)..Len(url) :
        /\ \A k \in (i + 11)..j : CharAt(url, k) \in LowerCase \cup Digits
        /\ Slice(url, j + 1, j + 5) = ".html"}

IdMatchAt(url, i) ==
    /\ Slice(url, i, i + 8) = "/players/"
    /\ CharAt(url, i + 9) \in LowerCase
    /\ CharAt(url, i + 10) = "/"
    /\ IdEnds(url, i) # {}

\* The identifier of the leftmost match, or NaN (None) when there is none.
extract_player_id(url) ==
    IF url = NaN \/ url = "" THEN NaN
    ELSE LET starts == {i \in 1..Len(url) : IdMatchAt(url, i)}
         IN IF starts = {} THEN NaN
            ELSE LET i == CHOOSE a \in starts : \A b \in starts : a <= b
                     j == CHOOSE b \in IdEnds(url, i) : TRUE
                 IN SubSeq(url, i + 11, j)

(***************************************************************************)
(* process_multi_level_headers                                             *)
(***************************************************************************)
\* Lines 644-650: the base name of position i (0-based, i > 0).
BaseName(first, second, i) ==
    IF second \in {"nan", "", "Unnamed: 0_level_1", "Unnamed: 0"}
    THEN IF first \notin {"nan", ""} /\ ~StartsWith(first, "Unnamed")
         THEN first
         ELSE "Column_" \o IntText(i)
    ELSE second

\* Lines 653-690: the qualifier the top label forces onto the base name.
Qualified(stat_type, first, new_col) ==
    IF stat_type = "adj_shooting"
    THEN IF Contains(first, "League-Adjusted") \/ Contains(first, "League Adjusted")
         THEN new_col \o " LA" ELSE new_col
    ELSE IF stat_type = "play-by-play"
    THEN IF Contains(first, "+/- Per 100 Poss") THEN new_col \o " p100"
         ELSE IF Contains(first, "Turnovers") THEN new_col \o " TO"
         ELSE IF Contains(first, "Fouls Committed") THEN new_col \o " Foul"
         ELSE IF Contains(first, "Fouls Drawn") THEN new_col \o " Drawn"
         ELSE new_col
    ELSE IF stat_type = "shooting"
    THEN IF Contains(first, "% of FGA by Distance") THEN new_col \o " (% of FGA)"
         ELSE IF Contains(first, "FG% by Distance") THEN new_col \o " (FG%)"
         ELSE IF Contains(first, "% of FG Ast'd") THEN new_col \o " (% AST'd)"
         ELSE IF Contains(first, "Dunks") THEN "Dunks " \o new_col
         ELSE IF Contains(first, "Corner 3s") THEN new_col \o " (Corner 3s)"
         ELSE IF Contains(first, "1/2 Court") THEN "Half Court " \o new_col
         ELSE new_col
    ELSE new_col

\* Lines 631-692: the new labels, for the two levels of the table's columns
\* (the table's own levels: line 622 reads them from the MultiIndex).
process_multi_level_headers(stat_type, first_level, second_level) ==
    List([k \in 1..Len(first_level) |->
        IF k = 1 THEN "player_id"
        ELSE Qualified(stat_type, Str(first_level[k]),
                       BaseName(Str(first_level[k]), Str(second_level[k]), k - 1))])

(***************************************************************************)
(* scrape_stat_table                                                       *)
(*                                                                         *)
(* A page is what the site answers for one (year, category):               *)
(*   status  "ok", or "fetch_failed" (no markup), "no_table" (no table in  *)
(*           the markup), "parse_error" (pd.read_html raises);             *)
(*   trs     the <tr> rows of the table's body, each [thead, href, text]:  *)
(*           whether its class is thead, and the href and the text of its  *)
(*           first anchor (NaN when the row has no anchor);                *)
(*   data    the rows pd.read_html returns, each a sequence of cells.      *)
(***************************************************************************)
\* Lines 21-30: STAT_TYPES[stat_type], the name the site uses in its URLs.
UrlStatType(stat_type) ==
    CASE stat_type = "per_36" -> "per_minute"
      [] stat_type = "per_100_poss" -> "per_poss"
      [] OTHER -> stat_type

\* Line 438
has_multi_headers(stat_type) ==
    stat_type \in {"adj_shooting", "play-by-play", "shooting"}

\* The column labels pd.read_html gives the category's table: the cells
\* are rank, player name, team, one stat, and the awards text or a second
\* stat.  A multi-level table has a top and a bottom label per column; the
\* parser names an empty top label 'Unnamed: <i>_level_0'.
RawColumns(stat_type) ==
    CASE stat_type = "shooting" ->
           [top |-> <<"Unnamed: 0_level_0", "Unnamed: 1_level_0",
                      "Unnamed: 2_level_0", "% of FGA by Distance", "FG% by Distance">>,
            bottom |-> <<"Rk", "Player", "Team", "3P", "0-3">>]
      [] stat_type = "play-by-play" ->
           [top |-> <<"Unnamed: 0_level_0", "Unnamed: 1_level_0",
                      "Unnamed: 2_level_0", "+/- Per 100 Poss", "Turnovers">>,
            bottom |-> <<"Rk", "Player", "Team", "OnCourt", "BadPass">>]
      [] stat_type = "adj_shooting" ->
           [top |-> <<"Unnamed: 0_level_0", "Unnamed: 1_level_0",
                      "Unnamed: 2_level_0", "Shooting %", "League-Adjusted">>,
            bottom |-> <<"Rk", "Player", "Team", "FG", "FG+">>]
      [] stat_type = "advanced" ->
           [top |-> <<>>, bottom |-> <<"Rk", "Player", "Team", "PER", "Awards">>]
      [] OTHER ->
           [top |-> <<>>, bottom |-> <<"Rk", "Player", "Team", "PTS", "Awards">>]

\* str(col) of a column label: a MultiIndex label is a tuple.
ColumnText(stat_type, k) ==
    IF has_multi_headers(stat_type)
    THEN "('" \o RawColumns(stat_type).top[k] \o "', '"
              \o RawColumns(stat_type).bottom[k] \o "')"
    ELSE RawColumns(stat_type).bottom[k]

\* str.lower()
Lower(s) ==
    LET low(c) == IF c \in UpperCase
                  THEN CharAt("abcdefghijklmnopqrstuvwxyz", Rank(c) - Rank("A") + 1)
                  ELSE c
        RECURSIVE go(_)
        go(t) == IF Len(t) = 0 THEN "" ELSE low(CharAt(t, 1)) \o go(From(t, 1))
    IN go(s)

\* The value scrape_stat_table returns when it returns no table.
None == [cols |-> <<>>, rows |-> <<>>, none |-> TRUE]

IsNone(df) == "none" \in DOMAIN df

\* Lines 498-499: row.find('a', href=re.compile(r'/players/'))
HasPlayerLink(tr) == tr.href # NaN /\ Contains(tr.href, "/players/")

\* Lines 486-503: player_ids, one entry per row that is no repeated header.
player_ids(page) ==
    LET body == Pick(page.trs, {i \in 1..Len(page.trs) : ~page.trs[i].thead})
    IN List([i \in 1..Len(body) |->
           IF HasPlayerLink(body[i]) THEN extract_player_id(body[i].href) ELSE NaN])

\* Lines 511-514: the data rows, without repeated headers and blank ranks.
DataRows(page) ==
    Pick(page.data, {i \in 1..Len(page.data) :
                        page.data[i][1] \notin {"Rk", "Player", NaN}})

\* Lines 518-527: the positional identifiers, trimmed or padded to the rows.
PositionalIds(page) ==
    LET ids == player_ids(page)
        valid_player_ids == Pick(ids, {i \in 1..Len(ids) : ids[i] # NaN})
        n == Len(DataRows(page))
    IN List([i \in 1..n |-> IF i <= Len(valid_player_ids) THEN valid_player_ids[i] ELSE NaN])

\* Line 531: whether the identifiers are re-extracted by player name.
FallbackTriggered(page) ==
    LET positional == PositionalIds(page)
    IN \/ Len(positional) # Len(DataRows(page))
       \/ \E i \in 1..Len(positional) : positional[i] = NaN

\* Lines 537-541: the position of the player name column, 0 when none.
PlayerNameCols ==
    [stat_type \in {UrlStatType(t) : t \in StatTypeSet} |->
        LET n == Len(RawColumns(stat_type).bottom)
            named == {k \in 1..n :
                         /\ Contains(Lower(ColumnText(stat_type, k)), "player")
                         /\ ~Contains(Lower(ColumnText(stat_type, k)), "id")}
        IN IF named = {} THEN 0 ELSE CHOOSE k \in named : \A m \in named : k <= m]

player_name_col(stat_type) == PlayerNameCols[stat_type]

\* Lines 545-552: name_to_id, as the entries [name, id] in the order the
\* rows of the markup add them; a row that adds none has the name NaN.
name_to_id(page) ==
    List([i \in 1..Len(page.trs) |->
        LET tr == page.trs[i]
            pid == IF HasPlayerLink(tr) THEN extract_player_id(tr.href) ELSE NaN
            player_name == IF tr.text = NaN THEN "" ELSE Strip(tr.text)
        IN IF pid # NaN /\ player_name # ""
           THEN [name |-> player_name, id |-> pid]
           ELSE [name |-> NaN, id |-> NaN]])

\* Line 557: name_to_id.get(player_name); a later entry of the same name
\* has replaced an earlier one.
NameLookup(entries, player_name) ==
    LET hits == {i \in 1..Len(entries) : entries[i].name = player_name}
    IN IF hits = {} \/ player_name = NaN THEN NaN
       ELSE entries[CHOOSE i \in hits : \A j \in hits : j <= i].id

\* The fallback resolves by name only the rows that have no positional
\* identifier.
player_ids_unresolved_only(page, stat_type) ==
    LET rows == DataRows(page)
        col == player_name_col(stat_type)
        ids == player_ids(page)
        entries == name_to_id(page)
        positional == PositionalIds(page)
    IN IF ~FallbackTriggered(page) THEN positional
       ELSE IF col # 0
       THEN List([i \in 1..Len(rows) |->
                IF positional[i] # NaN THEN positional[i]
                ELSE NameLookup(entries, Strip(Str(rows[i][col])))])
       ELSE List([i \in 1..Len(rows) |-> IF i <= Len(ids) THEN ids[i] ELSE NaN])

\* Lines 531-571: player_ids_for_df.
player_ids_for_df(page, stat_type) ==
    LET rows == DataRows(page)
        col == player_name_col(stat_type)
        ids == player_ids(page)
        entries == name_to_id(page)
    IN IF ~FallbackTriggered(page) THEN PositionalIds(page)
       ELSE IF col # 0
       THEN List([i \in 1..Len(rows) |-> NameLookup(entries, Strip(Str(rows[i][col])))])
       ELSE List([i \in 1..Len(rows) |-> IF i <= Len(ids) THEN ids[i] ELSE NaN])

\* Lines 563-574: the identifier becomes the first column, and the rows
\* without one are removed.
KeepUnidentified(rows) == rows

DropUnidentified(rows) ==
    Pick(rows, {i \in 1..Len(rows) : rows[i][1] # NaN})

WithPlayerIds(page, stat_type) ==
    LET rows == DataRows(page)
        ids == player_ids_for_df(page, stat_type)
    IN DropUnidentified(List([i \in 1..Len(rows) |-> <<ids[i]>> \o rows[i]]))

\* Lines 576-581: the labels of the table, flattened and cleaned.
CleanedColumnsOf ==
    [stat_type \in {UrlStatType(t) : t \in StatTypeSet} |->
        LET raw == RawColumns(stat_type)
            flat == IF has_multi_headers(stat_type)
                    THEN process_multi_level_headers(stat_type,
                             <<"player_id">> \o raw.top, <<"">> \o raw.bottom)
                    ELSE <<"player_id">> \o raw.bottom
        IN List([k \in 1..Len(flat) |-> clean_column_name(flat[k])])]

CleanedColumns(stat_type) == CleanedColumnsOf[stat_type]

\* Lines 404-605; stat_type is the URL's name of the category,
\* internal_stat_type the key of STAT_TYPES.
scrape_stat_table(page, stat_type, internal_stat_type) ==
    IF page.status # "ok" THEN None
    ELSE LET df == [cols |-> CleanedColumns(stat_type),
                    rows |-> WithPlayerIds(page, stat_type)]
             normalize(d) == normalize_columns(d, internal_stat_type)
         IN Bind(Bind(Bind(DropCols(df, {"Rk"}), handle_traded_players),
                      split_awards_column),
                 normalize)

(***************************************************************************)
(* save_to_csv                                                             *)
(*                                                                         *)
(* A file on disk is a table of fields, [cols, rows], or Absent.  A cell   *)
(* holds a value: the text of a number stands for the number.              *)
(***************************************************************************)
Absent == [cols |-> <<>>, rows |-> <<>>, absent |-> TRUE]

\* os.path.exists
Exists(file) == "absent" \notin DOMAIN file

\* Map(df, f): the table with f applied to every cell.
MapCells(df, f(_)) ==
    [cols |-> df.cols,
     rows |-> List([r \in 1..Len(df.rows) |->
                  List([k \in 1..Len(df.rows[r]) |-> f(df.rows[r][k])])])]

\* DataFrame.to_csv(path, index=False): a missing value is written as an
\* empty field.
to_csv(df) ==
    LET field(v) == IF v = NaN THEN "" ELSE v
    IN MapCells(df, field)

\* The fields pd.read_csv reads as a missing value.
na_values ==
    {"", "#N/A", "#N/A N/A", "#NA", "-1.#IND", "-1.#QNAN", "-NaN", "-nan",
     "1.#IND", "1.#QNAN", "<NA>", "N/A", "NA", "NULL", "NaN", "None", "n/a",
     "nan", "null"}

\* Line 758: pd.read_csv(combined_file)
read_csv(file) ==
    LET value(v) == IF v \in na_values THEN NaN ELSE v
    IN MapCells([cols |-> file.cols, rows |-> file.rows], value)

\* Lines 745-746: df.copy(), then insert(1, 'year', year).
df_with_year(df, year) ==
    [cols |-> <<df.cols[1], "year">> \o Tail(df.cols),
     rows |-> List([r \in 1..Len(df.rows) |->
                  <<df.rows[r][1], IntText(year)>> \o Tail(df.rows[r])])]

\* The mask of line 760, reversed.
ThisSeason(combined_df, year) ==
    KeepRows(combined_df,
             {r \in RowSet(combined_df) :
                 /\ IsInt(Cell(combined_df, r, "year"))
                 /\ ParseInt(Cell(combined_df, r, "year")) = year})

\* Line 760: combined_df[combined_df['year'] != year]
OtherSeasons(combined_df, year) ==
    KeepRows(combined_df,
             {r \in RowSet(combined_df) :
                 ~(/\ IsInt(Cell(combined_df, r, "year"))
                   /\ ParseInt(Cell(combined_df, r, "year")) = year)})

\* The second table alone.
IncomingOnly(a, b) == b

\* Line 762: pd.concat([a, b], ignore_index=True): the columns of a, then
\* those b alone has; a row has NaN in the columns its table lacks.
concat(a, b) ==
    LET widen(cols, df, row) ==
            List([k \in 1..Len(cols) |->
                IF HasCol(df, cols[k]) THEN row[ColIndex(df, cols[k])] ELSE NaN])
        rows(cols) ==
            [cols |-> cols,
             rows |-> List([r \in 1..Len(a.rows) |-> widen(cols, a, a.rows[r])])
                      \o List([r \in 1..Len(b.rows) |-> widen(cols, b, b.rows[r])])]
    IN Bind(a.cols \o Pick(b.cols, {k \in 1..Len(b.cols) : ~HasCol(a, b.cols[k])}),
            rows)

\* Lines 766-767: player_id and year first, the others in their order.
Reordered(combined_df) ==
    LET rest == {k \in 1..Len(combined_df.cols) :
                    combined_df.cols[k] \notin {"player_id", "year"}}
        select(order) ==
            [cols |-> List([k \in 1..Len(order) |-> combined_df.cols[order[k]]]),
             rows |-> List([r \in 1..Len(combined_df.rows) |->
                          List([k \in 1..Len(order) |-> combined_df.rows[r][order[k]]])])]
    IN Bind(<<ColIndex(combined_df, "player_id"), ColIndex(combined_df, "year")>>
                \o Pick(List([k \in 1..Len(combined_df.cols) |-> k]), rest),
            select)

\* Lines 705-778.  files is [year_files, combined]; disk tells whether the
\* storage accepts the two writes ("ok"), or raises at the first
\* ("year_write_fails") or at the second ("combined_write_fails") before
\* anything is written.  The result is [ok, year_files, combined]: the
\* value returned and the files as the call leaves them.
save_to_csv(df, year, stat_type, files, disk) ==
    LET untouched == [ok |-> FALSE, year_files |-> files.year_files,
                      combined |-> files.combined]
    IN IF IsNone(df) \/ Len(df.rows) = 0 \/ Len(df.cols) = 0 THEN untouched
       ELSE IF disk = "year_write_fails" \/ HasCol(df, "year") THEN untouched
       ELSE
         LET combined_file == files.combined[stat_type]
             others(combined_df) == OtherSeasons(combined_df, year)
             save(with_year) ==
                 LET year_written ==
                         [files.year_files EXCEPT
                             ![<<stat_type, year>>] = to_csv(with_year)]
                     raises ==
                         \/ disk = "combined_write_fails"
                         \/ Exists(combined_file) /\ ~HasCol(combined_file, "year")
                         \/ ~HasCol(with_year, "player_id")
                     append(combined_df) == concat(combined_df, with_year)
                     combined_df ==
                         IF Exists(combined_file)
                         THEN Bind(Bind(read_csv(combined_file), others), append)
                         ELSE with_year
                 IN IF raises
                    THEN [ok |-> FALSE, year_files |-> year_written,
                          combined |-> files.combined]
                    ELSE [ok |-> TRUE, year_files |-> year_written,
                          combined |-> [files.combined EXCEPT
                                           ![stat_type] =
                                               to_csv(Bind(combined_df, Reordered))]]
         IN Bind(df_with_year(df, year), save)

(***************************************************************************)
(* The driver at rest, for the specifications that exercise one function,  *)
(* and the harness at rest, for the specification of the driver.           *)
(***************************************************************************)
DriverIdle ==
    /\ pc = "idle"
    /\ argv_years = <<>>
    /\ valid_years = <<>>
    /\ yi = 0
    /\ ci = 0
    /\ site = <<>>
    /\ year_files = <<>>
    /\ combined = <<>>
    /\ failures = 0
    /\ last_df = <<>>
    /\ last_saved = <<>>
    /\ prev_combined = <<>>
    /\ attempted = <<>>

HarnessIdle ==
    /\ fn = "main"
    /\ args = <<>>
    /\ rets = <<>>

(***************************************************************************)
(* SpecClean: clean_column_name applied to a label, and applied again to   *)
(* its own result.                                                         *)
(***************************************************************************)
\* The characters the labels are drawn from: a shot-type digit, another
\* digit, a letter, and the punctuation the function has rules for.
LabelChars == {"3", "1", "P", "A", "-", "_", "%", " ", ".", "(", ")"}

RECURSIVE Words(_, _)
Words(chars, n) ==
    IF n = 0 THEN {""}
    ELSE LET shorter == Words(chars, n - 1)
         IN shorter \cup {w \o c : w \in shorter, c \in chars}

\* Labels of the site's tables, as the header flattener hands them over.
SiteLabels ==
    {"Rk", "Player", "Age", "Team", "Pos", "G", "GS", "MP", "FG", "FGA", "FG%",
     "3P", "3PA", "3P%", "2P", "2PA", "2P%", "eFG%", "FT", "FTA", "FT%", "ORB",
     "DRB", "TRB", "AST", "STL", "BLK", "TOV", "PF", "PTS", "Trp-Dbl", "Awards",
     "WS/48", "OnCourt p100", "FG+ LA", "Dunks #", "Half Court Att.",
     "0-3 (% of FGA)", "3-10 (FG%)", "10-16 (% of FGA)", "16-3P (FG%)",
     "3P (% AST'd)", "%3PA (Corner 3s)", "Dist.", "2P (FG%)", "PG% (Position)"}

Labels == Words(LabelChars, MaxLabelLen) \cup SiteLabels \cup {NaN}

InitClean ==
    /\ fn = "clean_column_name"
    /\ args \in {<<x>> : x \in Labels}
    /\ rets = <<>>
    /\ DriverIdle

\* df.columns = [clean_column_name(col) for col in df.columns]
Canonicalize ==
    /\ fn = "clean_column_name"
    /\ Len(rets) = 0
    /\ rets' = <<clean_column_name(args[1])>>
    /\ UNCHANGED <<fn, args, driver>>

\* The canonicalizer applied to a name it has produced.
Recanonicalize ==
    /\ fn = "clean_column_name"
    /\ Len(rets) = 1
    /\ rets' = Append(rets, clean_column_name(rets[1]))
    /\ UNCHANGED <<fn, args, driver>>

NextClean == Canonicalize \/ Recanonicalize

SpecClean == InitClean /\ [][NextClean]_vars

\* A legal bare identifier: letters, digits and underscores, no leading digit.
IsIdentifier(s) ==
    /\ \A i \in 1..Len(s) :
           CharAt(s, i) \in LowerCase \cup UpperCase \cup Digits \cup {"_"}
    /\ ~(Len(s) > 0 /\ CharAt(s, 1) \in Digits)

\* C8 (as claimed): for every label, canonicalizing the canonical name gives
\* the canonical name again, labels that get the leading-underscore escape
\* included.
C8_Idempotent ==
    (fn = "clean_column_name" /\ Len(rets) = 2) => rets[2] = rets[1]

\* C9 (as claimed): for every label the canonical name is a legal bare
\* identifier: no leading digit, no whitespace, no punctuation but "_".
C9_LegalIdentifier ==
    (fn = "clean_column_name" /\ Len(rets) >= 1) => IsIdentifier(rets[1])

\* What a character becomes, the period becoming dot.
SubstChar(c, dot) ==
    CASE c = "%" -> "_pct"
      [] c = "+" -> ""
      [] c = "/" -> "_per_"
      [] c \in {"-", " "} -> "_"
      [] c = "." -> dot
      [] c = "#" -> "_ct"
      [] c = "'" -> ""
      [] OTHER -> c

RECURSIVE Subst(_, _)
Subst(s, dot) ==
    IF Len(s) = 0 THEN s ELSE SubstChar(CharAt(s, 1), dot) \o Subst(From(s, 1), dot)

\* The canonical name of a label when every character is substituted on its
\* own, before the underscores are collapsed and stripped.
ExpectedName(col_name, dot) ==
    LET p == PrefixRules(col_name)
        c == RStripChar(CollapseUnderscores(Subst(Parentheses(p.col), dot)), "_")
    IN IF p.needs THEN c ELSE LStripChar(c, "_")

\* C22 (as claimed): every hyphen, space and period becomes an underscore,
\* percent "_pct", slash "_per_", hash "_ct", and plus and apostrophe are
\* dropped; so a label with an interior period keeps an underscore there.
C22_SymbolsAsDescribed ==
    (fn = "clean_column_name" /\ Len(rets) >= 1 /\ args[1] \notin {NaN, ""}) =>
        rets[1] = ExpectedName(args[1], "_")

\* C22 (amended): every hyphen and space becomes an underscore, percent
\* "_pct", slash "_per_", hash "_ct", and period, plus and apostrophe are
\* dropped; so the two sides of an interior period are joined.
C22_PeriodDropped ==
    (fn = "clean_column_name" /\ Len(rets) >= 1 /\ args[1] \notin {NaN, ""}) =>
        /\ rets[1] = ExpectedName(args[1], "")
        /\ ~Contains(rets[1], ".")
        /\ (Len(args[1]) = 3 /\ CharAt(args[1], 2) = "."
              /\ CharAt(args[1], 1) \in {"A", "P"} /\ CharAt(args[1], 3) \in {"A", "P"})
             => rets[1] = CharAt(args[1], 1) \o CharAt(args[1], 3)

\* C22's case is reached: a label with a period between two letters has
\* been canonicalized, and one with a slash, a hash and an apostrophe each.
C22_Witness ==
    /\ fn = "clean_column_name"
    /\ Len(rets) >= 1
    /\ args[1] = "P.A"
    /\ rets[1] = "PA"
    /\ clean_column_name("WS/48") = "WS_per_48"
    /\ clean_column_name("Dunks #") = "Dunks_ct"

(***************************************************************************)
(* SpecTraded: handle_traded_players applied to a table whose rows all     *)
(* carry a player_id.                                                      *)
(***************************************************************************)
TradedIds == {"jamesle01", "doncilu01"}

\* Team cells: an aggregate marker, two team codes, and a blank cell.
TeamCells == {"2TM", "LAL", "BOS", NaN}

DecimalText == <<"1", "2", "3", "4", "5", "6", "7", "8", "9", "10">>

RECURSIVE Tuples(_, _)
Tuples(S, n) ==
    IF n = 0 THEN {<<>>}
    ELSE {Append(t, x) : t \in Tuples(S, n - 1), x \in S}

\* A table of n rows; column G numbers the rows, so that each row can be
\* told from the others.
TradedTable(cells) ==
    [cols |-> <<"player_id", "Team", "G">>,
     rows |-> List([i \in 1..Len(cells) |-> <<cells[i][1], cells[i][2], DecimalText[i]>>])]

TradedTables ==
    {TradedTable(t) : t \in UNION {Tuples(TradedIds \X TeamCells, n) :
                                      n \in 1..MaxTradedRows}}

InitTraded ==
    /\ fn = "handle_traded_players"
    /\ args \in {<<df>> : df \in TradedTables}
    /\ rets = <<>>
    /\ DriverIdle

Consolidate ==
    /\ fn = "handle_traded_players"
    /\ Len(rets) = 0
    /\ rets' = <<handle_traded_players(args[1])>>
    /\ UNCHANGED <<fn, args, driver>>

NextTraded == Consolidate

SpecTraded == InitTraded /\ [][NextTraded]_vars

RowsOf(df, id) == {r \in RowSet(df) : Cell(df, r, "player_id") = id}

IdsOf(df) == {Cell(df, r, "player_id") : r \in RowSet(df)}

\* C5 (as claimed): after the consolidation every player_id of the input
\* occurs in exactly one row of the result.
C5_OneRowPerPlayer ==
    (fn = "handle_traded_players" /\ Len(rets) = 1) =>
        \A id \in IdsOf(args[1]) : Cardinality(RowsOf(rets[1], id)) = 1

\* The players the consolidation is about: exactly one aggregate row, at
\* least one per-team row, and no per-team row with a blank team label.
AggregateRows(df, id) == {r \in RowsOf(df, id) : IsTM(Cell(df, r, "Team"))}

TeamRows(df, id) == RowsOf(df, id) \ AggregateRows(df, id)

IsTradedCase(df, id) ==
    /\ Cardinality(AggregateRows(df, id)) = 1
    /\ TeamRows(df, id) # {}
    /\ \A r \in TeamRows(df, id) : Cell(df, r, "Team") # NaN

\* C6: a player with one aggregate row and n >= 1 per-team rows with
\* non-blank labels has exactly one row in the result: the aggregate row,
\* its Team the team codes joined by ", " in table order; no per-team row
\* of the player is in the result.
C6_Consolidated ==
    (fn = "handle_traded_players" /\ Len(rets) = 1) =>
        \A id \in IdsOf(args[1]) :
            IsTradedCase(args[1], id) =>
                LET in == args[1]
                    out == rets[1]
                    agg == CHOOSE r \in AggregateRows(in, id) : TRUE
                    codes == Pick(List([i \in 1..Len(in.rows) |-> Cell(in, i, "Team")]),
                                  TeamRows(in, id))
                IN /\ Cardinality(RowsOf(out, id)) = 1
                   /\ \A r \in RowsOf(out, id) :
                          /\ Cell(out, r, "G") = Cell(in, agg, "G")
                          /\ Cell(out, r, "Team") = Join(codes, ", ")

\* C6's case is reached: an aggregate row and two per-team rows in the
\* input, consolidated.
C6_Witness ==
    /\ fn = "handle_traded_players"
    /\ Len(rets) = 1
    /\ \E id \in IdsOf(args[1]) :
           /\ IsTradedCase(args[1], id)
           /\ Cardinality(TeamRows(args[1], id)) = 2
           /\ \E r \in RowSet(rets[1]) : Cell(rets[1], r, "Team") = "BOS, LAL"

(***************************************************************************)
(* SpecAwards: split_awards_column applied to a table with an awards text  *)
(* column, under its own label or under a placeholder label, and then      *)
(* normalize_columns applied to its result, as scrape_stat_table does.     *)
(***************************************************************************)
\* Award mentions: a plain code, a code that extends it, ranked codes, and
\* a rank that does not parse.
AwardMentions == {"AS", "ASG-2", "MVP-1", "MVP", "ROY-x"}

\* Awards cells: blank, one mention, or two mentions.
AwardCells ==
    {NaN} \cup AwardMentions
          \cup {a \o ", " \o b : a \in AwardMentions, b \in AwardMentions}

AwardLabels == {"Awards", "Column_25"}

AwardTable(label, cells) ==
    [cols |-> <<"player_id", "PTS", label>>,
     rows |-> List([i \in 1..Len(cells) |-> <<"jamesle01", DecimalText[i], cells[i]>>])]

AwardTables ==
    {AwardTable(l, t) : l \in AwardLabels,
                        t \in UNION {Tuples(AwardCells, n) : n \in 1..MaxAwardRows}}

InitAwards ==
    /\ fn = "split_awards_column"
    /\ args \in {<<df>> : df \in AwardTables}
    /\ rets = <<>>
    /\ DriverIdle

Decompose ==
    /\ fn = "split_awards_column"
    /\ Len(rets) = 0
    /\ rets' = <<split_awards_column(args[1])>>
    /\ UNCHANGED <<fn, args, driver>>

\* Lines 591-596: df = split_awards_column(df), then
\* df = normalize_columns(df, normalize_type), for one of the categories.
NormalizeDecomposed ==
    /\ fn = "split_awards_column"
    /\ Len(rets) = 1
    /\ \E stat_type \in StatTypeSet :
           rets' = Append(rets, [stat_type |-> stat_type,
                                 df |-> normalize_columns(rets[1], stat_type)])
    /\ UNCHANGED <<fn, args, driver>>

NextAwards == Decompose \/ NormalizeDecomposed

SpecAwards == InitAwards /\ [][NextAwards]_vars

\* The mentions of an awards text whose base award code is the given one.
MentionsOf(awards_str, award) ==
    IF awards_str = NaN THEN {}
    ELSE {i \in 1..Len(Mentions(awards_str)) :
             /\ Mentions(awards_str)[i] # ""
             /\ BaseAward(Mentions(awards_str)[i]) = award}

\* The value the award's column is to hold for a row: 0 when the text is
\* missing or has no mention of the code, the rank of the mention when it
\* has one that parses, 1 otherwise.
AwardIndicator(awards_str, award) ==
    IF MentionsOf(awards_str, award) = {} THEN 0
    ELSE LET ms == Mentions(awards_str)
             first == CHOOSE i \in MentionsOf(awards_str, award) :
                          \A j \in MentionsOf(awards_str, award) : i <= j
         IN IF Contains(ms[first], "-") /\ IsInt(Split(ms[first], "-")[2])
            THEN ParseInt(Split(ms[first], "-")[2])
            ELSE 1

\* C7 (as claimed): for every award code found in the table and every row,
\* the code's column holds 0 when the row's text is missing or does not
\* mention the code, the parsed rank when the mention has one, 1 otherwise,
\* also when one code is a prefix of another.
C7_AwardColumns ==
    (fn = "split_awards_column" /\ Len(rets) = 1 /\ HasCol(args[1], "Awards")) =>
        \A award \in AllAwards(args[1]) :
            /\ HasCol(rets[1], award)
            /\ \A r \in RowSet(args[1]) :
                   Cell(rets[1], r, award)
                       = IntText(AwardIndicator(Cell(args[1], r, "Awards"), award))

\* C12 (as claimed): for every category but totals and every award code
\* found in the table's awards text, the normalized table has no column of
\* that code.
C12_AwardsOnlyInTotals ==
    (/\ fn = "split_awards_column"
     /\ Len(rets) = 2
     /\ rets[2].stat_type # "totals"
     /\ HasCol(WithAwardsColumn(args[1]), "Awards")) =>
        \A award \in AllAwards(WithAwardsColumn(args[1])) :
            ~HasCol(rets[2].df, award)

(***************************************************************************)
(* SpecNorm: normalize_columns applied to one table under two categories.  *)
(* The table has one row, and each cell holds the label its column came    *)
(* in with, so that a column can be followed through the renaming.         *)
(***************************************************************************)
\* Input labels: counting stats, minutes, and one label of each group the
\* normalizer has a retention rule for.
NormLabels == {"FG", "_3P", "PTS", "TRB", "MP", "G", "Player", "Team", "MVP",
               "FG_pct", "TS_pct", "PER"}

NormTable(labels) ==
    LET order == Sorted(labels)
    IN [cols |-> <<"player_id">> \o order, rows |-> <<<<"jamesle01">> \o order>>]

NormTables ==
    {NormTable(L) : L \in {S \in SUBSET NormLabels :
                              Cardinality(S) \in 1..MaxNormCols}}

InitNorm ==
    /\ fn = "normalize_columns"
    /\ args \in {<<df, a, b>> : df \in NormTables, a \in StatTypeSet, b \in StatTypeSet}
    /\ rets = <<>>
    /\ DriverIdle

\* normalize_columns(df, stat_type) for the first, then the second category.
Normalize ==
    /\ fn = "normalize_columns"
    /\ Len(rets) < 2
    /\ rets' = Append(rets, normalize_columns(args[1], args[Len(rets) + 2]))
    /\ UNCHANGED <<fn, args, driver>>

NextNorm == Normalize

SpecNorm == InitNorm /\ [][NextNorm]_vars

\* The names a table emits for the column that came in as col (none when
\* the column was dropped).
EmittedNames(df, col) ==
    {df.cols[i] : i \in {j \in 1..Len(df.cols) : df.rows[1][j] = col}}

SuffixedTypes == {"totals", "per_game", "per_36", "per_100_poss"}

\* C10 (as claimed): for any two distinct categories, a counting-stat or
\* minutes-played column present in both inputs is emitted under different
\* names by the two (or dropped by one of them).
C10_NoCollisionAnyTwo ==
    (fn = "normalize_columns" /\ Len(rets) = 2 /\ args[2] # args[3]) =>
        \A col \in stat_cols_to_rename \cup {"MP"} :
            HasCol(args[1], col) =>
                EmittedNames(rets[1], col) \cap EmittedNames(rets[2], col) = {}

\* C10 (amended): the same for two distinct categories of which at least
\* one is totals, per_game, per_36 or per_100_poss; two categories outside
\* these four both emit a counting-stat column under its unsuffixed name.
\* Minutes-played is MP_total in totals, MP_pGame in per_game, and dropped
\* everywhere else.
C10_NoCollisionSuffixed ==
    (fn = "normalize_columns" /\ Len(rets) = 2 /\ args[2] # args[3]) =>
        /\ \A col \in stat_cols_to_rename \cup {"MP"} :
               (HasCol(args[1], col)
                   /\ (args[2] \in SuffixedTypes \/ args[3] \in SuffixedTypes)) =>
                   EmittedNames(rets[1], col) \cap EmittedNames(rets[2], col) = {}
        /\ \A col \in stat_cols_to_rename :
               (HasCol(args[1], col)
                   /\ args[2] \notin SuffixedTypes /\ args[3] \notin SuffixedTypes) =>
                   /\ EmittedNames(rets[1], col) = {col}
                   /\ EmittedNames(rets[2], col) = {col}
        /\ HasCol(args[1], "MP") =>
               \A k \in 1..2 :
                   EmittedNames(rets[k], "MP") =
                       IF args[k + 1] = "totals" THEN {"MP_total"}
                       ELSE IF args[k + 1] = "per_game" THEN {"MP_pGame"}
                       ELSE {}

\* C10's case is reached: a table with minutes-played and a counting stat,
\* normalized as totals and as per_game.
C10_Witness ==
    /\ fn = "normalize_columns"
    /\ Len(rets) = 2
    /\ args[2] = "totals"
    /\ args[3] = "per_game"
    /\ HasCol(args[1], "MP")
    /\ HasCol(rets[1], "MP_total")
    /\ HasCol(rets[2], "MP_pGame")
    /\ HasCol(rets[1], "PTS_total")
    /\ HasCol(rets[2], "PTS_pGame")

\* C11 (as claimed): a shooting-percentage column of the input is in the
\* output for adj_shooting and for totals, and in no other category's.
C11_PctRetained ==
    (fn = "normalize_columns" /\ Len(rets) >= 1) =>
        \A k \in 1..Len(rets) : \A col \in pct_cols :
            HasCol(args[1], col) =>
                (HasCol(rets[k], col) <=> args[k + 1] \in {"adj_shooting", "totals"})

(***************************************************************************)
(* SpecScrape: scrape_stat_table applied to one page of one category.  The *)
(* markup rows and the parsed rows of a page are drawn independently, so   *)
(* that they may disagree in number and in order.                          *)
(***************************************************************************)
James == "LeBron James"
Doncic == "Luka Doncic"

\* Markup rows: two players with well-formed links, a row without an
\* anchor, a repeated header, and a link whose href holds no identifier.
TrKinds ==
    {[thead |-> FALSE, href |-> "/players/j/jamesle01.html", text |-> James],
     [thead |-> FALSE, href |-> "/players/d/doncilu01.html", text |-> Doncic],
     [thead |-> FALSE, href |-> NaN, text |-> NaN],
     [thead |-> TRUE, href |-> NaN, text |-> NaN],
     [thead |-> FALSE, href |-> "/players/doncilu01", text |-> Doncic]}

\* Parsed rows, [rank, player, team, awards]: the two players on a team or
\* on an aggregate line, a repeated header, and a line with a blank rank.
DataKinds ==
    {<<"1", James, "LAL", "MVP-1,AS">>, <<"1", James, "2TM", "MVP-1,AS">>,
     <<"2", Doncic, "LAL", NaN>>, <<"2", Doncic, "2TM", NaN>>,
     <<"Rk", "Player", "Team", "Awards">>,
     <<NaN, "League Average", NaN, NaN>>}

\* The stat cell of a parsed row is a tag that tells its position.
RowTag(i) == IntText(100 + i)

DataRow(kind, i) == <<kind[1], kind[2], kind[3], RowTag(i), kind[4]>>

MakePage(trs, kinds) ==
    [status |-> "ok", trs |-> trs,
     data |-> List([i \in 1..Len(kinds) |-> DataRow(kinds[i], i)])]

FailedPage(status) == [status |-> status, trs |-> <<>>, data |-> <<>>]

FailedPages == {FailedPage(st) : st \in {"fetch_failed", "no_table", "parse_error"}}

\* The season of the spec's end-to-end scenario: a traded player's aggregate
\* row and two team rows, an ordinary row, and a row whose markup has no
\* link.
ScenarioPage ==
    MakePage(
        <<[thead |-> FALSE, href |-> "/players/j/jamesle01.html", text |-> James],
          [thead |-> FALSE, href |-> "/players/j/jamesle01.html", text |-> James],
          [thead |-> FALSE, href |-> "/players/j/jamesle01.html", text |-> James],
          [thead |-> FALSE, href |-> "/players/d/doncilu01.html", text |-> Doncic],
          [thead |-> FALSE, href |-> NaN, text |-> NaN]>>,
        <<<<"1", James, "2TM", "MVP-1,AS">>, <<"1", James, "LAL", "MVP-1,AS">>,
          <<"1", James, "BOS", "MVP-1,AS">>, <<"2", Doncic, "LAL", NaN>>,
          <<"3", "Kyrie Irving", "DAL", NaN>>>>)

\* A season whose first markup row has a link that holds no identifier and
\* whose two other rows are two players of one name; the parsed rows have
\* the names of the markup rows, in their order.
ScrambledPage ==
    MakePage(
        <<[thead |-> FALSE, href |-> "/players/doncilu01", text |-> Doncic],
          [thead |-> FALSE, href |-> "/players/j/jamesle01.html", text |-> James],
          [thead |-> FALSE, href |-> "/players/j/jamesle02.html", text |-> James]>>,
        <<<<"1", Doncic, "DAL", NaN>>, <<"2", James, "LAL", "AS">>,
          <<"3", James, "BOS", NaN>>>>)

Pages ==
    {MakePage(trs, kinds) :
        trs \in UNION {Tuples(TrKinds, n) : n \in 0..MaxPageRows},
        kinds \in UNION {Tuples(DataKinds, n) : n \in 0..MaxPageRows}}
    \cup FailedPages \cup {ScenarioPage, ScrambledPage}

InitScrape ==
    /\ fn = "scrape_stat_table"
    /\ args \in {<<page, stat_type>> : page \in Pages, stat_type \in StatTypeSet}
    /\ rets = <<>>
    /\ DriverIdle

\* Line 797: df = scrape_stat_table(year, url_stat_type, stat_type)
Scrape ==
    /\ fn = "scrape_stat_table"
    /\ Len(rets) = 0
    /\ rets' = <<scrape_stat_table(args[1], UrlStatType(args[2]), args[2])>>
    /\ UNCHANGED <<fn, args, driver>>

NextScrape == Scrape

SpecScrape == InitScrape /\ [][NextScrape]_vars

\* The k-th position of a set of positions.
Nth(positions, k) ==
    CHOOSE r \in positions : Cardinality({q \in positions : q < r}) = k - 1

\* The identifiers the markup of a page holds.
MarkupIds(page) ==
    {extract_player_id(page.trs[i].href) :
        i \in {j \in 1..Len(page.trs) : HasPlayerLink(page.trs[j])}} \ {NaN}

\* The rows of the result that came from the parsed row at position i.
RowsFrom(df, i) ==
    {r \in RowSet(df) : \E k \in 1..Len(df.rows[r]) : df.rows[r][k] = RowTag(i)}

\* The parsed rows that are data (no repeated header, no blank rank), and
\* the identifier the aligner resolves each to (NaN when neither the
\* positional strategy nor the name-based fallback resolves it).
DataPositions(page) ==
    {i \in 1..Len(page.data) : page.data[i][1] \notin {"Rk", "Player", NaN}}

ResolvedId(page, stat_type, i) ==
    player_ids_for_df(page, UrlStatType(stat_type))
        [Cardinality({j \in DataPositions(page) : j <= i})]

\* C4: every row of the table scrape_stat_table returns has a non-empty
\* player_id, which is an identifier of the page's markup and the one the
\* aligner resolved the row to; a data row the aligner resolves to no
\* identifier has no row in the result.
C4_IdentityRequired ==
    (fn = "scrape_stat_table" /\ Len(rets) = 1 /\ ~IsNone(rets[1])) =>
        /\ HasCol(rets[1], "player_id")
        /\ \A r \in RowSet(rets[1]) :
               /\ Cell(rets[1], r, "player_id") \notin {NaN, "", "nan"}
               /\ Cell(rets[1], r, "player_id") \in MarkupIds(args[1])
               /\ \E i \in DataPositions(args[1]) :
                      /\ r \in RowsFrom(rets[1], i)
                      /\ Cell(rets[1], r, "player_id") = ResolvedId(args[1], args[2], i)
        /\ \A i \in DataPositions(args[1]) :
               ResolvedId(args[1], args[2], i) = NaN => RowsFrom(rets[1], i) = {}

\* C4's case is reached: a page with a data row that neither strategy
\* resolves and one that is resolved; the result holds the second only.
C4_Witness ==
    /\ fn = "scrape_stat_table"
    /\ Len(rets) = 1
    /\ ~IsNone(rets[1])
    /\ Len(rets[1].rows) >= 1
    /\ FallbackTriggered(args[1])
    /\ \E i \in DataPositions(args[1]) :
           /\ ResolvedId(args[1], args[2], i) = NaN
           /\ RowsFrom(rets[1], i) = {}

\* Line 518: the identifiers of the markup rows that have one.
valid_player_ids(page) ==
    LET ids == player_ids(page)
    IN Pick(ids, {i \in 1..Len(ids) : ids[i] # NaN})

\* C19 (as claimed): the identifiers are looked up by name exactly when the
\* number of identifiers taken from the markup rows differs from the number
\* of data rows, being more or fewer, or a data row's positional identifier
\* is absent.
C19_FallbackTrigger ==
    (fn = "scrape_stat_table" /\ Len(rets) = 1 /\ args[1].status = "ok") =>
        (FallbackTriggered(args[1]) <=>
            \/ Len(valid_player_ids(args[1])) # Len(DataRows(args[1]))
            \/ \E i \in 1..Len(PositionalIds(args[1])) :
                   PositionalIds(args[1])[i] = NaN)

\* The markup rows that are no repeated header, and the identifier of each.
MarkupRows(page) == Pick(page.trs, {i \in 1..Len(page.trs) : ~page.trs[i].thead})

\* The data rows have the names of the markup rows' links, in their order.
NamesInOrder(page, stat_type) ==
    LET body == MarkupRows(page)
        rows == DataRows(page)
        col == player_name_col(UrlStatType(stat_type))
    IN /\ col # 0
       /\ Len(rows) = Len(body)
       /\ \A i \in 1..Len(body) :
              /\ HasPlayerLink(body[i])
              /\ body[i].text # NaN
              /\ Strip(Str(rows[i][col])) = Strip(body[i].text)

\* Some data row's positional identifier is not its markup row's.
Scrambled(page) ==
    \E i \in 1..Len(DataRows(page)) :
        /\ i <= Len(player_ids(page))
        /\ PositionalIds(page)[i] # player_ids(page)[i]

\* C20 (as claimed): when the positional identifiers are scrambled and the
\* data rows have the names of the markup rows in their order, every data
\* row whose markup row holds an identifier is given that identifier, and
\* carries it in the table returned if it has a row there.
C20_FallbackRecovery ==
    (/\ fn = "scrape_stat_table" /\ Len(rets) = 1 /\ ~IsNone(rets[1])
     /\ NamesInOrder(args[1], args[2])
     /\ Scrambled(args[1])) =>
        \A i \in 1..Len(DataRows(args[1])) :
            player_ids(args[1])[i] # NaN =>
                /\ player_ids_for_df(args[1], UrlStatType(args[2]))[i]
                       = player_ids(args[1])[i]
                /\ \A r \in RowsFrom(rets[1], Nth(DataPositions(args[1]), i)) :
                       Cell(rets[1], r, "player_id") = player_ids(args[1])[i]

(***************************************************************************)
(* Spec: a run of main over the seasons of the command line.  The storage  *)
(* starts empty or as an earlier run left it; a season may be named more   *)
(* than once, which ingests it again over what the earlier ingestion left. *)
(***************************************************************************)
\* Line 847: the seasons main accepts.
FirstSeason == 1946
LastSeason == 2100

Seasons == {2024, 2025}

\* What the command line may name: two seasons main accepts, one it skips.
YearChoices == Seasons \cup {1945}

\* Two players of one name, and a row whose markup has no link: fewer links
\* than data rows, so the identifiers are taken by name.
NamesakePage ==
    MakePage(
        <<[thead |-> FALSE, href |-> "/players/j/jamesle01.html", text |-> James],
          [thead |-> FALSE, href |-> "/players/j/jamesle02.html", text |-> James],
          [thead |-> FALSE, href |-> NaN, text |-> NaN]>>,
        <<<<"1", James, "LAL", "AS">>, <<"2", James, "BOS", NaN>>,
          <<"3", "Kyrie Irving", "DAL", NaN>>>>)

\* Two players, each on one team, with awards other than the scenario's.
PlainPage ==
    MakePage(
        <<[thead |-> FALSE, href |-> "/players/j/jamesle01.html", text |-> James],
          [thead |-> FALSE, href |-> "/players/d/doncilu01.html", text |-> Doncic]>>,
        <<<<"1", James, "LAL", "AS">>, <<"2", Doncic, "DAL", "ROY-1">>>>)

\* What the site holds for a season: the rows are the same in every
\* category's table, the columns are the category's.
SitePages == {ScenarioPage, NamesakePage, PlainPage}

FetchOutcomes == {"ok", "fetch_failed", "no_table", "parse_error"}

DiskOutcomes == {"ok", "year_write_fails", "combined_write_fails"}

\* Where a KeyboardInterrupt may reach save_to_csv: before line 749, inside
\* the to_csv of line 749, between lines 749 and 770, inside the to_csv of
\* line 770.
InterruptPoints ==
    {"before_write", "in_year_write", "between_writes", "in_combined_write"}

NoCall ==
    [stat_type |-> "", year |-> 0, df |-> None, before |-> Absent,
     year_before |-> Absent, disk |-> "", ok |-> FALSE]

EmptyStorage ==
    [year_files |-> [k \in StatTypeSet \X Seasons |-> Absent],
     combined |-> [t \in StatTypeSet |-> Absent]]

\* The seasons an earlier run may have ingested, from PlainPage.
PriorSeasons == {2024}

\* Lines 795-803, in an earlier run that met no failure and found no file:
\* what the category's table was, and the files its save left.
EarlierTable(stat_type) ==
    scrape_stat_table(PlainPage, UrlStatType(stat_type), stat_type)

EarlierSave(stat_type, year) ==
    save_to_csv(EarlierTable(stat_type), year, stat_type, EmptyStorage, "ok")

StorageAfter(earlier) ==
    [year_files |->
        [k \in StatTypeSet \X Seasons |->
            IF k[2] \in earlier
            THEN EarlierSave(k[1], k[2]).year_files[k] ELSE Absent],
     combined |->
        [t \in StatTypeSet |->
            IF earlier = {} THEN Absent
            ELSE EarlierSave(t, CHOOSE y \in earlier : TRUE).combined[t]]]

SavedAfter(earlier) ==
    [k \in StatTypeSet \X Seasons |->
        IF k[2] \in earlier /\ EarlierSave(k[1], k[2]).ok
        THEN EarlierTable(k[1]) ELSE None]

Init ==
    /\ HarnessIdle
    /\ pc = "main"
    /\ argv_years \in UNION {Tuples(YearChoices, n) : n \in 0..MaxYears}
    /\ valid_years = <<>>
    /\ yi = 0
    /\ ci = 0
    /\ site = FailedPage("fetch_failed")
    /\ \E earlier \in SUBSET PriorSeasons :
          /\ year_files = StorageAfter(earlier).year_files
          /\ combined = StorageAfter(earlier).combined
          /\ last_saved = SavedAfter(earlier)
    /\ failures = 0
    /\ last_df = None
    /\ prev_combined = NoCall
    /\ attempted = <<>>

\* Lines 814-854: main up to its loop.  The years are those of the command
\* line or, when it names none, of the prompt.
ValidateYears ==
    /\ pc = "main"
    /\ LET valid == Pick(argv_years,
                         {i \in 1..Len(argv_years) :
                             FirstSeason <= argv_years[i] /\ argv_years[i] <= LastSeason})
       IN /\ valid_years' = valid
          /\ pc' = IF Len(argv_years) = 0 \/ Len(valid) = 0
                   THEN "exit_1" ELSE "scrape_year"
          /\ yi' = IF Len(valid) = 0 THEN 0 ELSE 1
    /\ UNCHANGED <<harness, argv_years, ci, site, year_files, combined, failures,
                   last_df, last_saved, prev_combined, attempted>>

\* Lines 857-859 and 788-792: scrape_year(year) is entered; the site holds
\* one of the seasons.
ScrapeYear ==
    /\ pc = "scrape_year"
    /\ site' \in SitePages
    /\ ci' = 1
    /\ pc' = "scrape_stat_table"
    /\ UNCHANGED <<harness, argv_years, valid_years, yi, year_files, combined,
                   failures, last_df, last_saved, prev_combined, attempted>>

\* Lines 792 and 857-871: the loops go on to the next category, the next
\* season, or the end of main.
\* The run ends at the first category that failed.
NextPcStopAtFailure ==
    IF failures' > 0 THEN "done"
    ELSE IF ci < Len(STAT_TYPES) THEN "scrape_stat_table"
    ELSE IF yi < Len(valid_years) THEN "scrape_year"
    ELSE "done"

NextPc == IF ci < Len(STAT_TYPES) THEN "scrape_stat_table"
          ELSE IF yi < Len(valid_years) THEN "scrape_year"
          ELSE "done"

NextCi == IF ci < Len(STAT_TYPES) THEN ci + 1 ELSE 0

NextYi == IF ci < Len(STAT_TYPES) \/ yi >= Len(valid_years) THEN yi ELSE yi + 1

\* A table is saved whatever it is.
AlwaysSave(df) == TRUE

\* Line 799: df is not None and not df.empty
ShouldSave(df) == ~IsNone(df) /\ Len(df.rows) > 0 /\ Len(df.cols) > 0

\* A save that failed ends the run.
PcAfterSaveFatal(ok) == IF ok THEN NextPc ELSE "exit_1"

\* Lines 800-803: whether save_to_csv returned True (success_count += 1) or
\* False (print "Failed to save"), the loop of line 792 goes on.
PcAfterSave(ok) == NextPc

\* Lines 795-805: df = scrape_stat_table(...); a category that yields no
\* table, or an empty one, is not saved.
ScrapeStatTable ==
    /\ pc = "scrape_stat_table"
    /\ attempted' = Append(attempted, <<valid_years[yi], STAT_TYPES[ci]>>)
    /\ \E outcome \in FetchOutcomes :
          /\ outcome # "ok" => failures < MaxFailures
          /\ failures' = IF outcome = "ok" THEN failures ELSE failures + 1
          /\ LET stat_type == STAT_TYPES[ci]
                 page == IF outcome = "ok" THEN site ELSE FailedPage(outcome)
             IN \E df \in {scrape_stat_table(page, UrlStatType(stat_type), stat_type)} :
                   /\ last_df' = df
                   /\ IF ShouldSave(df)
                      THEN /\ pc' = "save_to_csv"
                           /\ UNCHANGED <<ci, yi>>
                      ELSE /\ pc' = NextPc
                           /\ ci' = NextCi
                           /\ yi' = NextYi
    /\ UNCHANGED <<harness, argv_years, valid_years, site, year_files, combined,
                   last_saved, prev_combined>>

\* Lines 799-803: save_to_csv(df, year, stat_type).
SaveToCsv ==
    /\ pc = "save_to_csv"
    /\ \E disk \in DiskOutcomes :
          /\ disk # "ok" => failures < MaxFailures
          /\ failures' = IF disk = "ok" THEN failures ELSE failures + 1
          /\ LET stat_type == STAT_TYPES[ci]
                 year == valid_years[yi]
             IN \E saved \in {save_to_csv(last_df, year, stat_type,
                                          [year_files |-> year_files,
                                           combined |-> combined], disk)} :
                   /\ year_files' = saved.year_files
                   /\ combined' = saved.combined
                   /\ last_saved' =
                          IF saved.ok
                          THEN [last_saved EXCEPT ![<<stat_type, year>>] = last_df]
                          ELSE last_saved
                   /\ prev_combined' = [stat_type |-> stat_type, year |-> year,
                                        df |-> last_df, before |-> combined[stat_type],
                                        year_before |-> year_files[<<stat_type, year>>],
                                        disk |-> disk, ok |-> saved.ok]
                   /\ pc' = PcAfterSave(saved.ok)
    /\ ci' = NextCi
    /\ yi' = NextYi
    /\ UNCHANGED <<harness, argv_years, valid_years, site, last_df, attempted>>

\* Lines 864-866: the user interrupts while a season is fetched, or while
\* main waits between two seasons; KeyboardInterrupt is no Exception, so it
\* passes the handlers of lines 600-605 and ends the run.
Interrupt ==
    /\ pc \in {"scrape_year", "scrape_stat_table"}
    /\ failures < MaxFailures
    /\ failures' = failures + 1
    /\ pc' = "interrupted"
    /\ UNCHANGED <<harness, argv_years, valid_years, yi, ci, site, year_files,
                   combined, last_df, last_saved, prev_combined, attempted>>

\* A file whose writing was cut short: the header and the first n rows.
Truncated(file, n) == [cols |-> file.cols, rows |-> SubSeq(file.rows, 1, n)]

\* Lines 744-772 and 864-866: the user interrupts inside save_to_csv.  The
\* handler of line 776 does not catch it; what was written stays written,
\* and a file being written is left cut short.
InterruptSave ==
    /\ pc = "save_to_csv"
    /\ failures < MaxFailures
    /\ failures' = failures + 1
    /\ pc' = "interrupted"
    /\ LET stat_type == STAT_TYPES[ci]
           year == valid_years[yi]
       IN \E saved \in {save_to_csv(last_df, year, stat_type,
                                    [year_files |-> year_files,
                                     combined |-> combined], "ok")} :
          \E point \in InterruptPoints :
             /\ prev_combined' = [stat_type |-> stat_type, year |-> year,
                                  df |-> last_df, before |-> combined[stat_type],
                                  year_before |-> year_files[<<stat_type, year>>],
                                  disk |-> point, ok |-> FALSE]
             /\ year_files' \in
                    IF point = "before_write" THEN {year_files}
                    ELSE IF point = "in_year_write"
                    THEN {[year_files EXCEPT ![<<stat_type, year>>] =
                              Truncated(saved.year_files[<<stat_type, year>>], n)] :
                          n \in 0..(Len(saved.year_files[<<stat_type, year>>].rows) - 1)}
                    ELSE {saved.year_files}
             /\ combined' \in
                    IF point = "in_combined_write"
                    THEN {[combined EXCEPT ![stat_type] =
                              Truncated(saved.combined[stat_type], n)] :
                          n \in 0..(Len(saved.combined[stat_type].rows) - 1)}
                    ELSE {combined}
    /\ UNCHANGED <<harness, argv_years, valid_years, yi, ci, site, last_df,
                   last_saved, attempted>>

\* The steps the program takes by itself are the steps of Next that move its
\* position on, to another place than the handler of line 864: ValidateYears,
\* ScrapeYear, ScrapeStatTable and SaveToCsv each change pc or ci, and each
\* can be taken wherever the program has not ended.
Run ==
    /\ pc \in {"main", "scrape_year", "scrape_stat_table", "save_to_csv"}
    /\ pc' \in {"scrape_year", "scrape_stat_table", "save_to_csv", "done", "exit_1"}
    /\ ci' \in 0..Len(STAT_TYPES)
    /\ <<pc', ci'>> # <<pc, ci>>

Next == ValidateYears \/ ScrapeYear \/ ScrapeStatTable \/ SaveToCsv

\* The program left to run.
Spec == Init /\ [][Next]_vars

NextInterruptible == Next \/ Interrupt \/ InterruptSave

\* The program with a user who may interrupt it.
SpecInterruptible == Init /\ [][NextInterruptible]_vars

\* The program, once started, runs on until it ends or is interrupted: it
\* has no blocking point but the fetch, which returns markup or a failure.
SpecLive == Init /\ [][NextInterruptible]_vars /\ WF_<<pc, ci>>(Run)

\* The table a cumulative file holds; no columns and no rows when the file
\* does not exist.
Held(file) == IF Exists(file) THEN read_csv(file) ELSE [cols |-> <<>>, rows |-> <<>>]

\* The positions of the rows of a season, and of the other seasons.
SeasonRows(df, year) == {r \in RowSet(df) : Cell(df, r, "year") = IntText(year)}

\* Row r of table new is row q of table old, with no value in the columns
\* old does not have.
SameRow(new, r, old, q) ==
    \A c \in 1..Len(new.cols) :
        new.rows[r][c] = IF HasCol(old, new.cols[c])
                         THEN Cell(old, q, new.cols[c]) ELSE NaN

\* Row r of table new is row j of the incoming table T, tagged with season S.
TaggedRow(new, r, T, j, S) ==
    \A c \in 1..Len(new.cols) :
        new.rows[r][c] = IF new.cols[c] = "year" THEN IntText(S)
                         ELSE IF HasCol(T, new.cols[c])
                         THEN Cell(T, j, new.cols[c]) ELSE NaN

\* C1: after a successful save_to_csv of table T for season S over the
\* cumulative table C, the new cumulative table is the rows of C of other
\* seasons, in their order and with their values, followed by the rows of
\* T tagged with S; no row of C of season S is left; player_id and year
\* are the two leading columns.
C1_MergeStep ==
    prev_combined.ok =>
        LET S == prev_combined.year
            T == prev_combined.df
            C == Held(prev_combined.before)
            new == Held(combined[prev_combined.stat_type])
            kept == RowSet(C) \ SeasonRows(C, S)
            n == Cardinality(kept)
        IN /\ Len(new.cols) >= 2
           /\ new.cols[1] = "player_id"
           /\ new.cols[2] = "year"
           /\ \A c \in 1..Len(C.cols) : HasCol(new, C.cols[c])
           /\ \A c \in 1..Len(T.cols) : HasCol(new, T.cols[c])
           /\ Len(new.rows) = n + Len(T.rows)
           /\ \A k \in 1..n :
                  /\ SameRow(new, k, C, Nth(kept, k))
                  /\ k \notin SeasonRows(new, S)
           /\ \A j \in 1..Len(T.rows) : TaggedRow(new, n + j, T, j, S)

\* C1's case is reached: a table of season S is merged into a cumulative
\* table that holds rows of S and rows of another season.
C1_Witness ==
    /\ prev_combined.ok
    /\ LET C == Held(prev_combined.before)
       IN /\ SeasonRows(C, prev_combined.year) # {}
          /\ RowSet(C) \ SeasonRows(C, prev_combined.year) # {}
    /\ Len(Held(combined[prev_combined.stat_type]).rows) > Len(prev_combined.df.rows)

\* The rows of a table as values: each a map from column name to value.
RowMaps(df, positions) ==
    {[c \in {df.cols[k] : k \in 1..Len(df.cols)} |-> Cell(df, r, c)] : r \in positions}

\* The rows the cumulative table holds for season S are the rows of table
\* T tagged with S, in T's order.
HoldsSeason(held, S, T) ==
    /\ Cardinality(SeasonRows(held, S)) = Len(T.rows)
    /\ \A j \in 1..Len(T.rows) : TaggedRow(held, Nth(SeasonRows(held, S), j), T, j, S)

\* C2: in every state, and so after any sequence of merges, the rows a
\* cumulative table holds for a season are the rows of the most recent
\* successful merge of that season (none when there was none), so that
\* merging another season leaves them as they were; and a merge of season
\* S whose input is what the table already holds for S leaves the table
\* with the same rows, in number and in values.
C2_LastMergeOfSeason ==
    /\ \A t \in StatTypeSet : \A y \in Seasons :
           IF IsNone(last_saved[<<t, y>>])
           THEN Exists(combined[t]) => SeasonRows(Held(combined[t]), y) = {}
           ELSE /\ Exists(combined[t])
                /\ HoldsSeason(Held(combined[t]), y, last_saved[<<t, y>>])
    /\ (/\ prev_combined.ok
        /\ Exists(prev_combined.before)
        /\ HoldsSeason(Held(prev_combined.before), prev_combined.year, prev_combined.df))
       => LET C == Held(prev_combined.before)
              new == Held(combined[prev_combined.stat_type])
          IN /\ Len(new.rows) = Len(C.rows)
             /\ RowMaps(new, RowSet(new)) = RowMaps(C, RowSet(C))

\* C2's case is reached: season S is merged again with the input the table
\* already holds for it, into a table that also holds another season.
C2_Witness ==
    /\ prev_combined.ok
    /\ Exists(prev_combined.before)
    /\ HoldsSeason(Held(prev_combined.before), prev_combined.year, prev_combined.df)
    /\ \E y \in Seasons \ {prev_combined.year} :
           /\ ~IsNone(last_saved[<<prev_combined.stat_type, y>>])
           /\ SeasonRows(Held(combined[prev_combined.stat_type]), y) # {}

\* C3 (as claimed): in every state no two rows of a category's cumulative
\* table have the same player_id and the same season.
C3_UniqueKey ==
    \A t \in StatTypeSet :
        Exists(combined[t]) =>
            \A r, q \in RowSet(Held(combined[t])) :
                (/\ Cell(Held(combined[t]), r, "player_id")
                        = Cell(Held(combined[t]), q, "player_id")
                 /\ Cell(Held(combined[t]), r, "year")
                        = Cell(Held(combined[t]), q, "year"))
                => r = q

\* The (year, category) pairs of a run over the given seasons, in order.
AllPairs(years) ==
    [i \in 1..(Len(years) * Len(STAT_TYPES)) |->
        <<years[((i - 1) \div Len(STAT_TYPES)) + 1],
          STAT_TYPES[((i - 1) % Len(STAT_TYPES)) + 1]>>]

IsPrefix(s, t) == Len(s) <= Len(t) /\ \A i \in 1..Len(s) : s[i] = t[i]

\* C13: whatever categories fail to fetch, to parse or to save, a run that is
\* not interrupted attempts the pairs of its valid seasons in order and ends
\* having attempted every one of them.
C13_FailureIsolation ==
    /\ [](pc \notin {"main", "exit_1"} => IsPrefix(attempted, AllPairs(valid_years)))
    /\ <>(\/ pc \in {"exit_1", "interrupted"}
          \/ pc = "done" /\ attempted = AllPairs(valid_years))

\* C13's case is reached: a run over MaxYears seasons met a failure in a
\* category other than the last and went on to attempt every pair.
C13_Witness ==
    /\ pc = "done"
    /\ failures >= 1
    /\ Len(valid_years) = MaxYears
    /\ attempted = AllPairs(valid_years)
    /\ \E t \in StatTypeSet \ {STAT_TYPES[Len(STAT_TYPES)]} :
           IsNone(last_saved[<<t, valid_years[1]>>])

StorageFailures == DiskOutcomes \ {"ok"}

\* C14 (as claimed): the run aborts exactly when no valid season was
\* supplied or a storage failure occurred; after a storage failure the run
\* is aborted, it does not go on to the next category.
C14_FatalConditions ==
    /\ pc = "exit_1" => (Len(valid_years) = 0 \/ prev_combined.disk \in StorageFailures)
    /\ (pc # "main" /\ Len(valid_years) = 0) => pc = "exit_1"
    /\ prev_combined.disk \in StorageFailures => pc = "exit_1"

\* C14 (amended): the run aborts exactly when no valid season was supplied;
\* a save that met a storage failure reports failure, and the run goes on
\* to the next category, the next season, or its normal end.
C14_OnlyNoSeasonIsFatal ==
    /\ [](pc = "exit_1" <=> (pc # "main" /\ Len(valid_years) = 0))
    /\ [][(pc = "save_to_csv" /\ prev_combined'.disk \in StorageFailures) =>
            /\ ~prev_combined'.ok
            /\ pc' = IF ci < Len(STAT_TYPES) THEN "scrape_stat_table"
                     ELSE IF yi < Len(valid_years) THEN "scrape_year"
                     ELSE "done"]_vars

\* C14's case is reached: a save met a storage failure and the run went on
\* to attempt a later pair.
C14_Witness ==
    /\ prev_combined.disk \in StorageFailures
    /\ pc \in {"scrape_stat_table", "save_to_csv", "scrape_year", "done"}
    /\ Len(attempted) > 0
    /\ attempted[Len(attempted)] # <<prev_combined.year, prev_combined.stat_type>>

\* C15: when the fetch fails, or the markup has no table that can be read,
\* scrape_stat_table yields no table, save_to_csv is not called for the pair,
\* and no per-season file and no cumulative table changes.
C15_SkippedPair ==
    [][(pc = "scrape_stat_table" /\ failures' = failures + 1 /\ pc' # "interrupted") =>
           /\ IsNone(last_df')
           /\ pc' # "save_to_csv"
           /\ prev_combined' = prev_combined
           /\ year_files' = year_files
           /\ combined' = combined]_vars

\* C15's case is reached: the last pair attempted yielded no table while
\* the files hold rows stored earlier for its season.
C15_Witness ==
    /\ pc \in {"scrape_stat_table", "scrape_year", "done"}
    /\ failures >= 1
    /\ IsNone(last_df)
    /\ Len(attempted) > 0
    /\ LET year == attempted[Len(attempted)][1]
           stat_type == attempted[Len(attempted)][2]
       IN /\ Exists(year_files[<<stat_type, year>>])
          /\ SeasonRows(Held(combined[stat_type]), year) # {}

\* C17 (as claimed): once a run has been interrupted, the cumulative table
\* of every category holds, for every season merged into it, the rows of the
\* last completed merge of that season; and the save that was interrupted,
\* if any, changed both the per-season file and the cumulative table of its
\* category or neither.
C17_CoarseCancellation ==
    pc = "interrupted" =>
        /\ \A t \in StatTypeSet : \A y \in Seasons :
               ~IsNone(last_saved[<<t, y>>]) =>
                   /\ Exists(combined[t])
                   /\ HoldsSeason(Held(combined[t]), y, last_saved[<<t, y>>])
        /\ prev_combined.disk \in InterruptPoints =>
               ((year_files[<<prev_combined.stat_type, prev_combined.year>>]
                     # prev_combined.year_before)
                <=> (combined[prev_combined.stat_type] # prev_combined.before))

\* C16: when the totals table of a season whose raw rows are an aggregate
\* row of a traded player with his two per-team rows, an ordinary row and a
\* row with no identifier has been ingested, the table produced, the
\* per-season file and the season's part of the cumulative table each have
\* exactly two rows: the traded player's, with the two teams joined, and
\* the ordinary player's; the unidentified player has none.
C16_Scenario ==
    (/\ pc = "scrape_stat_table"
     /\ ci = 2
     /\ site = ScenarioPage
     /\ prev_combined.ok
     /\ prev_combined.stat_type = "totals"
     /\ prev_combined.df = last_df) =>
        LET year == valid_years[yi]
            held == Held(combined["totals"])
        IN /\ prev_combined.year = year
           /\ \A df \in {last_df, Held(year_files[<<"totals", year>>])} :
                  /\ Len(df.rows) = 2
                  /\ \E r \in RowsOf(df, "jamesle01") :
                         /\ Cell(df, r, "Player") = James
                         /\ Cell(df, r, "Team") = "LAL, BOS"
                  /\ \E r \in RowsOf(df, "doncilu01") :
                         /\ Cell(df, r, "Player") = Doncic
                         /\ Cell(df, r, "Team") = "LAL"
                  /\ \A r \in RowSet(df) : Cell(df, r, "Player") # "Kyrie Irving"
           /\ Cardinality(SeasonRows(held, year)) = 2
           /\ HoldsSeason(held, year, last_df)

\* C16's case is reached: the scenario's totals table has been ingested.
C16_Witness ==
    /\ pc = "scrape_stat_table"
    /\ ci = 2
    /\ site = ScenarioPage
    /\ prev_combined.ok
    /\ prev_combined.stat_type = "totals"
    /\ prev_combined.df = last_df
    /\ Len(site.data) = 5

\* The markup rows whose link gives the name an identifier: a link with an
\* identifier and that text.
Namers(page, name) ==
    {k \in 1..Len(page.trs) :
        /\ HasPlayerLink(page.trs[k])
        /\ extract_player_id(page.trs[k].href) # NaN
        /\ page.trs[k].text # NaN
        /\ Strip(page.trs[k].text) = name}

\* The identifier of the last markup row that names the player, NaN when no
\* row does.
LaterId(page, name) ==
    IF Namers(page, name) = {} THEN NaN
    ELSE extract_player_id(
             page.trs[CHOOSE k \in Namers(page, name) :
                         \A m \in Namers(page, name) : m <= k].href)

\* The name of the i-th data row.
DataName(page, stat_type, i) ==
    Strip(Str(DataRows(page)[i][player_name_col(UrlStatType(stat_type))]))

\* C23: when the fallback is triggered and the table has a player-name
\* column, every data row's identifier is the one the markup gives its name,
\* the later one when two markup rows have the name, whatever its positional
\* identifier was; a row whose name the markup gives no identifier has no
\* row in the table returned, and every other row that is returned carries
\* the identifier of its name.
C23_FullReResolution ==
    (/\ fn = "scrape_stat_table" /\ Len(rets) = 1 /\ ~IsNone(rets[1])
     /\ FallbackTriggered(args[1])
     /\ player_name_col(UrlStatType(args[2])) # 0) =>
        \A i \in 1..Len(DataRows(args[1])) :
            LET id == LaterId(args[1], DataName(args[1], args[2], i))
                from == RowsFrom(rets[1], Nth(DataPositions(args[1]), i))
            IN /\ player_ids_for_df(args[1], UrlStatType(args[2]))[i] = id
               /\ id = NaN => from = {}
               /\ \A r \in from : Cell(rets[1], r, "player_id") = id

\* C23's case is reached: the fallback ran on a page where a row with a
\* positional identifier has a name the markup gives no identifier, and is
\* dropped, and where two rows of one name, whose markup rows hold distinct
\* identifiers, both take the later one.
C23_Witness ==
    /\ fn = "scrape_stat_table" /\ Len(rets) = 1 /\ ~IsNone(rets[1])
    /\ FallbackTriggered(args[1])
    /\ \E i \in 1..Len(DataRows(args[1])) :
           /\ PositionalIds(args[1])[i] # NaN
           /\ LaterId(args[1], DataName(args[1], args[2], i)) = NaN
           /\ RowsFrom(rets[1], Nth(DataPositions(args[1]), i)) = {}
    /\ \E i, j \in 1..Len(DataRows(args[1])) :
           /\ i < j
           /\ DataName(args[1], args[2], i) = DataName(args[1], args[2], j)
           /\ j <= Len(player_ids(args[1]))
           /\ player_ids(args[1])[i] \notin {NaN, player_ids(args[1])[j]}
           /\ \E r \in RowsFrom(rets[1], Nth(DataPositions(args[1]), i)) :
                  Cell(rets[1], r, "player_id") = player_ids(args[1])[j]

(***************************************************************************)
(* The stages of one (season, category) pass, one step each.               *)
(*                                                                         *)
(* fn = "stages", args = <<page, stat_type, year>>, rets = the tables the  *)
(* stages have produced so far, each [stage, top, cols, rows]: top is the  *)
(* upper level of the labels while there are two levels, <<>> otherwise.   *)
(***************************************************************************)
\* The stages in the order of the description: flattening and cleaning come
\* before the alignment.
StageAfterAsDescribed(stage, multi) ==
    CASE stage = "raw" -> IF multi THEN "flatten" ELSE "clean"
      [] stage = "flatten" -> "clean"
      [] stage = "clean" -> "align"
      [] stage = "align" -> "drop_rk"
      [] stage = "drop_rk" -> "traded"
      [] stage = "traded" -> "awards"
      [] stage = "awards" -> "normalize"
      [] stage = "normalize" -> "merge"
      [] OTHER -> "end"

\* Lines 516-598 and 799-800: the stage that follows a stage.
StageAfter(stage, multi) ==
    CASE stage = "raw" -> "align"
      [] stage = "align" -> IF multi THEN "flatten" ELSE "clean"
      [] stage = "flatten" -> "clean"
      [] stage = "clean" -> "drop_rk"
      [] stage = "drop_rk" -> "traded"
      [] stage = "traded" -> "awards"
      [] stage = "awards" -> "normalize"
      [] stage = "normalize" -> "merge"
      [] OTHER -> "end"

\* Lines 440-461: the table as parsed.
RawTable(page, stat_type) ==
    [stage |-> "raw",
     top |-> IF has_multi_headers(stat_type) THEN RawColumns(stat_type).top ELSE <<>>,
     cols |-> RawColumns(stat_type).bottom,
     rows |-> page.data]

\* The table the last stage produced.
StageTable ==
    IF Len(rets) = 0 THEN RawTable(args[1], UrlStatType(args[2])) ELSE rets[Len(rets)]

\* The stage that comes now.
StageNow == StageAfter(StageTable.stage, has_multi_headers(UrlStatType(args[2])))

Staged(stage, df) == [stage |-> stage, top |-> <<>>, cols |-> df.cols, rows |-> df.rows]

Plain(t) == [cols |-> t.cols, rows |-> t.rows]

StagePages ==
    {MakePage(trs, kinds) : trs \in Tuples(TrKinds, 1), kinds \in Tuples(DataKinds, 1)}
    \cup {ScenarioPage, ScrambledPage}

InitStages ==
    /\ fn = "stages"
    /\ args \in {<<page, stat_type, year>> :
                     page \in StagePages, stat_type \in StatTypeSet, year \in Seasons}
    /\ rets = <<>>
    /\ DriverIdle

\* Lines 509-574: header rows removed, the identifiers resolved, player_id
\* inserted as the first column, rows without identifier removed.
AlignIdentities ==
    /\ fn = "stages"
    /\ StageNow = "align"
    /\ rets' = Append(rets,
           [stage |-> "align",
            top |-> IF StageTable.top = <<>> THEN <<>>
                    ELSE <<"player_id">> \o StageTable.top,
            cols |-> IF StageTable.top = <<>> THEN <<"player_id">> \o StageTable.cols
                     ELSE <<"">> \o StageTable.cols,
            rows |-> WithPlayerIds(args[1], UrlStatType(args[2]))])
    /\ UNCHANGED <<fn, args, driver>>

\* Lines 576-578: the two levels of labels become one.
FlattenHeaders ==
    /\ fn = "stages"
    /\ StageNow = "flatten"
    /\ rets' = Append(rets,
           [stage |-> "flatten",
            top |-> <<>>,
            cols |-> process_multi_level_headers(UrlStatType(args[2]),
                                                 StageTable.top, StageTable.cols),
            rows |-> StageTable.rows])
    /\ UNCHANGED <<fn, args, driver>>

\* Line 581: every label is cleaned.
CleanColumns ==
    /\ fn = "stages"
    /\ StageNow = "clean"
    /\ rets' = Append(rets,
           [stage |-> "clean",
            top |-> <<>>,
            cols |-> List([k \in 1..Len(StageTable.cols) |->
                              clean_column_name(StageTable.cols[k])]),
            rows |-> StageTable.rows])
    /\ UNCHANGED <<fn, args, driver>>

\* Lines 584-585: the rank column is removed.
DropRank ==
    /\ fn = "stages"
    /\ StageNow = "drop_rk"
    /\ rets' = Append(rets, Staged("drop_rk", DropCols(Plain(StageTable), {"Rk"})))
    /\ UNCHANGED <<fn, args, driver>>

\* Line 588
ConsolidateTraded ==
    /\ fn = "stages"
    /\ StageNow = "traded"
    /\ rets' = Append(rets, Staged("traded", handle_traded_players(Plain(StageTable))))
    /\ UNCHANGED <<fn, args, driver>>

\* Line 591
DecomposeAwards ==
    /\ fn = "stages"
    /\ StageNow = "awards"
    /\ rets' = Append(rets, Staged("awards", split_awards_column(Plain(StageTable))))
    /\ UNCHANGED <<fn, args, driver>>

\* Lines 595-596
NormalizeSchema ==
    /\ fn = "stages"
    /\ StageNow = "normalize"
    /\ rets' = Append(rets,
           Staged("normalize", normalize_columns(Plain(StageTable), args[2])))
    /\ UNCHANGED <<fn, args, driver>>

\* Lines 799-800: the table returned, if it has rows, is merged into the
\* cumulative table; the stage's table is the cumulative file.
MergeStore ==
    /\ fn = "stages"
    /\ StageNow = "merge"
    /\ ShouldSave(Plain(StageTable))
    /\ rets' = Append(rets,
           Staged("merge",
                  save_to_csv(Plain(StageTable), args[3], args[2],
                              EmptyStorage, "ok").combined[args[2]]))
    /\ UNCHANGED <<fn, args, driver>>

NextStages ==
    \/ AlignIdentities \/ FlattenHeaders \/ CleanColumns \/ DropRank
    \/ ConsolidateTraded \/ DecomposeAwards \/ NormalizeSchema \/ MergeStore

SpecStages == InitStages /\ [][NextStages]_vars

\* The stages that have run, in their order.
StagesRun == [k \in 1..Len(rets) |-> rets[k].stage]

Without(seq, x) == Pick(seq, {k \in 1..Len(seq) : seq[k] # x})

\* C18 (as claimed): the stages run in the order flattener (for a category
\* with two levels of labels), canonicalizer, aligner, consolidator,
\* decomposer, normalizer, merge; the aligner never runs before the
\* canonicalizer has.
C18_StageOrder ==
    fn = "stages" =>
        /\ IsPrefix(Without(StagesRun, "drop_rk"),
                    IF has_multi_headers(UrlStatType(args[2]))
                    THEN <<"flatten", "clean", "align", "traded", "awards",
                           "normalize", "merge">>
                    ELSE <<"clean", "align", "traded", "awards", "normalize", "merge">>)
        /\ \A k \in 1..Len(rets) :
               rets[k].stage = "align" => \E j \in 1..(k - 1) : rets[j].stage = "clean"

\* C18 (amended): the stages run in the order aligner, flattener (for a
\* category with two levels of labels), canonicalizer, removal of the rank
\* column, consolidator, decomposer, normalizer, merge; the aligner runs
\* first, on the labels as parsed; and the table after the normalizer is
\* the one scrape_stat_table returns.
C18_StageOrderAlignerFirst ==
    fn = "stages" =>
        /\ IsPrefix(StagesRun,
                    IF has_multi_headers(UrlStatType(args[2]))
                    THEN <<"align", "flatten", "clean", "drop_rk", "traded", "awards",
                           "normalize", "merge">>
                    ELSE <<"align", "clean", "drop_rk", "traded", "awards",
                           "normalize", "merge">>)
        /\ \A k \in 1..Len(rets) :
               /\ rets[k].stage \in {"flatten", "clean"} =>
                      \E j \in 1..(k - 1) : rets[j].stage = "align"
               /\ rets[k].stage = "align" =>
                      Tail(rets[k].cols) = RawColumns(UrlStatType(args[2])).bottom
               /\ rets[k].stage = "normalize" =>
                      Plain(rets[k]) =
                          scrape_stat_table(args[1], UrlStatType(args[2]), args[2])

\* C18's case is reached: every stage has run on a table with two levels
\* of labels, and the merge has stored its rows.
C18_Witness ==
    /\ fn = "stages"
    /\ has_multi_headers(UrlStatType(args[2]))
    /\ Len(rets) = 8
    /\ rets[8].stage = "merge"
    /\ Len(rets[8].rows) >= 2
    /\ rets[2].cols # rets[1].cols

(***************************************************************************)
(* process_multi_level_headers on its own.                                 *)
(*                                                                         *)
(* fn = "process_multi_level_headers", args = <<stat_type, first_level,    *)
(* second_level>>: the two levels of the labels of a table whose first     *)
(* column is the inserted player_id, labelled ('player_id', '').           *)
(***************************************************************************)
\* Top labels: the parser's name for an empty cell, an empty and a missing
\* label, and group headers of the three categories.
TopLabels ==
    {"Unnamed: 1_level_0", "", NaN, "Shooting %", "League-Adjusted", "Dunks"}

\* Bottom labels: the parser's names for an empty cell of the first, second
\* and third parsed column, an empty and a missing label, and a stat.
BottomLabels ==
    {"Unnamed: 0_level_1", "Unnamed: 1_level_1", "Unnamed: 2_level_1", "", NaN, "FG"}

InitFlatten ==
    /\ fn = "process_multi_level_headers"
    /\ args \in {<<stat_type, <<"player_id">> \o first, <<"">> \o second>> :
                     stat_type \in {"adj_shooting", "play-by-play", "shooting"},
                     first \in UNION {Tuples(TopLabels, n) : n \in 1..MaxFlatCols},
                     second \in UNION {Tuples(BottomLabels, n) : n \in 1..MaxFlatCols}}
    /\ Len(args[2]) = Len(args[3])
    /\ rets = <<>>
    /\ DriverIdle

\* Line 578: df = process_multi_level_headers(df, stat_type, ...)
Flatten ==
    /\ fn = "process_multi_level_headers"
    /\ Len(rets) = 0
    /\ rets' = <<process_multi_level_headers(args[1], args[2], args[3])>>
    /\ UNCHANGED <<fn, args, driver>>

NextFlatten == Flatten

SpecFlatten == InitFlatten /\ [][NextFlatten]_vars

\* A label that is empty, missing, or a name the parser gave an empty cell.
IsPlaceholder(label) ==
    Str(label) \in {"nan", ""} \/ StartsWith(Str(label), "Unnamed: ")

\* C21 (as claimed): the first new label is player_id; the new label of
\* position i > 0 is built on the bottom label, or, when the bottom label is
\* a placeholder, on the top label, or on Column_i when the top label is a
\* placeholder too.
C21_BaseName ==
    (fn = "process_multi_level_headers" /\ Len(rets) = 1) =>
        /\ Len(rets[1]) = Len(args[2])
        /\ rets[1][1] = "player_id"
        /\ \A k \in 2..Len(args[2]) :
               rets[1][k] =
                   Qualified(args[1], Str(args[2][k]),
                             IF ~IsPlaceholder(args[3][k]) THEN Str(args[3][k])
                             ELSE IF ~IsPlaceholder(args[2][k]) THEN Str(args[2][k])
                             ELSE "Column_" \o IntText(k - 1))

=============================================================================
